---------------------------- MODULE Spec2Model ----------------------------
(***************************************************************************)
(* Model of the proposal-review pipeline of NSFC_Writer                    *)
(* (src/src/proposal_reviewer.py): document segmentation by heading        *)
(* patterns, model-backed and rule-based review of a section, parsing of   *)
(* the model response, the review of a whole proposal, the review report   *)
(* and the reassembly of the revised proposal; of the review handlers of   *)
(* the web application (src/src/app.py); and of the deduplication of       *)
(* training sections (src/src/data_processor.py).                          *)
(*                                                                         *)
(* Representation of strings.  A Python str is a sequence of TOKENS; a     *)
(* token is a fixed substring of the real text, named in ASCII, and        *)
(* CharLen gives the number of characters it stands for.  Offsets and      *)
(* lengths are character offsets and character counts, as in the code.     *)
(* A regular expression is modelled by what it matches on token            *)
(* sequences.  The filler tokens stand for runs of neutral characters      *)
(* (no heading, keyword, digit, bracket or whitespace inside), so that no  *)
(* pattern of the code matches inside a token or across a token boundary   *)
(* other than as stated by the operators below.                            *)
(*                                                                         *)
(* Names of the source that are Chinese strings are written in English:    *)
(*   Rationale = 立项依据      ResearchContent = 研究内容                  *)
(*   ResearchPlan = 研究方案   Innovation = 创新点                         *)
(*   ExpectedOutcomes = 预期成果  ResearchFoundation = 研究基础            *)
(*   FullText = 全文                                                       *)
(***************************************************************************)
EXTENDS Integers, Sequences, FiniteSets, TLC

VARIABLES
    pc,                \* position of the running operation
    text,              \* the text handed to _extract_sections
    section_positions, \* local of _extract_sections: sorted (pos, name, title)
    spans,             \* locals start, end of the iterations that kept a section
    sections,          \* the section map: ordered sequence of [key, value]
    generator,         \* self.generator: "none", "backend" or "NSFCGenerator"
    use_model,         \* argument use_model
    section_name,      \* argument section_name of the running review_section
    content,           \* argument content of the running review_section
    prompt,            \* local prompt of the running _review_with_model
    outcome,           \* what generator._generate did in the running call
    backend_calls,     \* number of calls of generator._generate so far
    calls,             \* the completed review_section calls and what they returned
    file,              \* argument file_path of review_full_proposal, and the file
    results,           \* the mapping of results: ordered sequence of [key, value]
    error,             \* the exception that left review_full_proposal, or "none"
    document,          \* the string returned by generate_revised_proposal
    review_results,    \* WebApp.review_results: ordered sequence of [key, value]
    reply,             \* what the last handler of WebApp returned
    processed_hashes,  \* DataProcessor.processed_hashes
    returned           \* the lists process_markdown_file has returned, in order

vars == <<pc, text, section_positions, spans, sections, generator, use_model,
          section_name, content, prompt, outcome, backend_calls, calls, file,
          results, error, document, review_results, reply, processed_hashes,
          returned>>

segVars == <<text, section_positions, spans, sections>>

reviewerVars == <<generator, use_model>>

reviewVars == <<section_name, content, prompt, outcome, backend_calls, calls>>

appVars == <<review_results, reply>>

dataVars == <<processed_hashes, returned>>

sessionVars == <<file, results, error, document, appVars, dataVars>>

----------------------------------------------------------------------------
(* Bounds of the model *)

MaxTextLen == 5

----------------------------------------------------------------------------
(* Tokens and strings *)

\* Heading tokens: the text each one stands for is matched by exactly one
\* heading pattern of _extract_sections.
\*   "1.Rationale"        一、立项依据      "Background&Meaning" 研究背景与意义
\*   "2.ResearchContent"  二、研究内容      "3.ResearchPlan"     三、研究方案
\*   "4.Innovation"       四、创新点        "5.ExpectedOutcomes" 五、预期成果
\*   "6.ResearchFoundation" 六、研究基础
HeadingTokens ==
    {"1.Rationale", "Background&Meaning", "2.ResearchContent", "3.ResearchPlan",
     "4.Innovation", "5.ExpectedOutcomes", "6.ResearchFoundation"}

\* Whitespace characters (str.strip and \s): "NL" is "\n", "SP" is " ".
Whitespace == {"NL", "SP"}

\* Number of characters a token stands for.
CharLen(tok) ==
    CASE tok = "1.Rationale" -> 6
      [] tok = "Background&Meaning" -> 7
      [] tok = "2.ResearchContent" -> 6
      [] tok = "3.ResearchPlan" -> 6
      [] tok = "4.Innovation" -> 5
      [] tok = "5.ExpectedOutcomes" -> 6
      [] tok = "6.ResearchFoundation" -> 6
      [] tok = "F49" -> 49
      [] tok = "F50" -> 50
      [] tok = "F51" -> 51
      [] tok = "F500" -> 500
      [] tok = "F3000" -> 3000
      [] tok = "Kw:Rationale" -> 20
      [] tok = "Kw:ResearchContent" -> 16
      [] tok = "Kw:Meaning" -> 2
      [] tok = "(1)" -> 3
      [] tok = "[1]" -> 3
      [] tok = "Score" -> 2
      [] tok = "MainIssues" -> 4
      [] tok = "Suggestions" -> 4
      [] tok = "RevisedFull" -> 8
      [] tok = "##" -> 2
      [] tok = "M1" -> 128
      [] tok = "M2" -> 128
      [] OTHER -> 1

\* len(s)
RECURSIVE len(_)
len(s) == IF s = <<>> THEN 0 ELSE CharLen(Head(s)) + len(Tail(s))

\* Character offset of the i-th token of s (0-based offsets, 1-based i).
Offset(s, i) == len(SubSeq(s, 1, i - 1))

\* s[start:end] for offsets that fall on token boundaries.
Slice(s, start, end) ==
    LET lo == CHOOSE i \in 1..(Len(s) + 1) : Offset(s, i) = start
        hi == CHOOSE j \in 1..(Len(s) + 1) : Offset(s, j) = end
    IN  SubSeq(s, lo, hi - 1)

\* str.strip(): drops leading and trailing whitespace.
RECURSIVE lstrip(_)
lstrip(s) ==
    IF s # <<>> /\ Head(s) \in Whitespace THEN lstrip(Tail(s)) ELSE s

RECURSIVE rstrip(_)
rstrip(s) ==
    IF s # <<>> /\ s[Len(s)] \in Whitespace
    THEN rstrip(SubSeq(s, 1, Len(s) - 1)) ELSE s

strip(s) == rstrip(lstrip(s))

----------------------------------------------------------------------------
(* Ordered dictionaries: a sequence of [key, value] with distinct keys, in  *)
(* insertion order (Python dict).                                          *)

Keys(d) == [i \in 1..Len(d) |-> d[i].key]

KeySet(d) == {d[i].key : i \in 1..Len(d)}

DictGet(d, k) == d[CHOOSE i \in 1..Len(d) : d[i].key = k].value

\* d[k] = v: replaces the value in place, or appends a new key.
DictSet(d, k, v) ==
    IF k \in KeySet(d)
    THEN [i \in 1..Len(d) |-> IF d[i].key = k THEN [key |-> k, value |-> v] ELSE d[i]]
    ELSE Append(d, [key |-> k, value |-> v])

----------------------------------------------------------------------------
(* ProposalReviewer._extract_sections *)

\* section_patterns: canonical name -> heading patterns in priority order.
\* A pattern is named by the regular expression it stands for.
section_patterns ==
    << [name |-> "Rationale",
        patterns |-> <<"[1]sep+Rationale", "Rationale&ResearchContent",
                       "ProjectRationale", "Background&?Meaning">>],
       [name |-> "ResearchContent",
        patterns |-> <<"[2]sep+ResearchContent", "MainResearchContent",
                       "ResearchContent&Goals">>],
       [name |-> "ResearchPlan",
        patterns |-> <<"[3]sep+ResearchPlan", "ResearchPlan&Feasibility",
                       "TechnicalRoute", "ResearchMethod">>],
       [name |-> "Innovation",
        patterns |-> <<"[4]sep+Innovation", "Features&Innovation",
                       "InnovativePoints", "ProjectInnovation">>],
       [name |-> "ExpectedOutcomes",
        patterns |-> <<"[5]sep+ExpectedOutcomes", "ExpectedResearchOutcomes",
                       "ExpectedGoals", "AssessmentIndicators">>],
       [name |-> "ResearchFoundation",
        patterns |-> <<"[6]sep+ResearchFoundation", "WorkFoundation",
                       "ResearchFoundation&Conditions", "PreliminaryWork">>] >>

\* Whether the text of token tok is a match of the pattern.
PatternMatches(pattern, tok) ==
    \/ pattern = "[1]sep+Rationale" /\ tok = "1.Rationale"
    \/ pattern = "Background&?Meaning" /\ tok = "Background&Meaning"
    \/ pattern = "[2]sep+ResearchContent" /\ tok = "2.ResearchContent"
    \/ pattern = "[3]sep+ResearchPlan" /\ tok = "3.ResearchPlan"
    \/ pattern = "[4]sep+Innovation" /\ tok = "4.Innovation"
    \/ pattern = "[5]sep+ExpectedOutcomes" /\ tok = "5.ExpectedOutcomes"
    \/ pattern = "[6]sep+ResearchFoundation" /\ tok = "6.ResearchFoundation"

\* list(re.finditer(pattern, text)): the indices of the matches, ascending.
finditer(pattern, s) == {i \in 1..Len(s) : PatternMatches(pattern, s[i])}

Min(S) == CHOOSE x \in S : \A y \in S : x <= y

\* The mutant of FirstPatternHit: the earliest match of any pattern of the
\* name, whatever its priority.
EarliestPatternHit(name, patterns, k, s) ==
    LET all == UNION {finditer(patterns[j], s) : j \in 1..Len(patterns)}
    IN  IF all = {} THEN <<>>
        ELSE << [pos |-> Offset(s, Min(all)), name |-> name, title |-> s[Min(all)]] >>

\* The inner loop over one name's patterns: the first pattern with a match
\* gives (matches[0].start(), section_name, matches[0].group()), then break.
RECURSIVE FirstPatternHit(_, _, _, _)
FirstPatternHit(name, patterns, k, s) ==
    IF k > Len(patterns) THEN <<>>
    ELSE LET matches == finditer(patterns[k], s)
         IN  IF matches # {}
             THEN << [pos |-> Offset(s, Min(matches)), name |-> name,
                      title |-> s[Min(matches)]] >>
             ELSE FirstPatternHit(name, patterns, k + 1, s)

\* The outer loop over section_patterns.items(), in dictionary order.
RECURSIVE CollectPositions(_, _)
CollectPositions(n, s) ==
    IF n = 0 THEN <<>>
    ELSE CollectPositions(n - 1, s)
         \o FirstPatternHit(section_patterns[n].name,
                            section_patterns[n].patterns, 1, s)

\* list.sort(key=lambda x: x[0]): a stable sort by position.
RECURSIVE InsertByPos(_, _)
InsertByPos(sorted, e) ==
    IF sorted = <<>> THEN <<e>>
    ELSE IF sorted[Len(sorted)].pos <= e.pos THEN Append(sorted, e)
    ELSE Append(InsertByPos(SubSeq(sorted, 1, Len(sorted) - 1), e),
                sorted[Len(sorted)])

RECURSIVE SortByPos(_)
SortByPos(l) ==
    IF l = <<>> THEN <<>>
    ELSE InsertByPos(SortByPos(SubSeq(l, 1, Len(l) - 1)), l[Len(l)])

SectionPositions(s) == SortByPos(CollectPositions(Len(section_patterns), s))

\* The minimum content length of a kept section.
MinContentLen == 50

\* Mutant of SpanEnd: every span runs to the end of the text.
SpanEndOfText(positions, i, s) == len(s)

\* Mutant of SpanStart: the first span starts at the beginning of the text.
SpanStartWithPreamble(positions, i) == IF i = 1 THEN 0 ELSE positions[i].pos

\* start and end of the i-th position: end is the next position or len(text).
SpanStart(positions, i) == positions[i].pos

SpanEnd(positions, i, s) ==
    IF i + 1 <= Len(positions) THEN positions[i + 1].pos ELSE len(s)

\* Mutant of RemoveTitle: the title is left in the content.
RemoveTitleNever(title, body) == body

\* re.sub("^" + re.escape(title), "", content): drops a leading title.
RemoveTitle(title, body) ==
    IF body # <<>> /\ Head(body) = title THEN Tail(body) ELSE body

\* The content extracted for the i-th position.
SectionContent(positions, i, s) ==
    strip(RemoveTitle(positions[i].title,
                      strip(Slice(s, SpanStart(positions, i),
                                  SpanEnd(positions, i, s)))))

\* Mutant of HasSubstance: a content of exactly 50 characters is kept.
HasSubstanceAtLeast(body) == len(body) >= MinContentLen

\* if len(content) > 50
HasSubstance(body) == len(body) > MinContentLen

\* The loop that fills the map, for the first n positions.
RECURSIVE FillSections(_, _, _)
FillSections(positions, n, s) ==
    IF n = 0 THEN <<>>
    ELSE LET before == FillSections(positions, n - 1, s)
             body == SectionContent(positions, n, s)
         IN  IF HasSubstance(body)
             THEN DictSet(before, positions[n].name, body)
             ELSE before

\* The (start, end) of the iterations of the loop that stored a section.
RECURSIVE KeptSpans(_, _, _)
KeptSpans(positions, n, s) ==
    IF n = 0 THEN <<>>
    ELSE LET before == KeptSpans(positions, n - 1, s)
         IN  IF HasSubstance(SectionContent(positions, n, s))
             THEN Append(before, [name |-> positions[n].name,
                                  start |-> SpanStart(positions, n),
                                  end |-> SpanEnd(positions, n, s)])
             ELSE before

\* Mutant of FullTextFallback: the catch-all entry only for a text in which
\* no heading matched.
FullTextFallbackNoHeading(found, s) ==
    IF found = <<>> /\ SectionPositions(s) = <<>>
    THEN DictSet(found, "FullText", s) ELSE found

\* Mutant of FullTextFallback: no catch-all entry for an empty text.
FullTextFallbackUnlessEmpty(found, s) ==
    IF found = <<>> /\ s # <<>> THEN DictSet(found, "FullText", s) ELSE found

\* Mutant of FullTextFallback: the catch-all entry holds the trimmed text.
FullTextFallbackStripped(found, s) ==
    IF found = <<>> THEN DictSet(found, "FullText", strip(s)) ELSE found

\* if not sections: sections["全文"] = text
FullTextFallback(found, s) ==
    IF found = <<>> THEN DictSet(found, "FullText", s) ELSE found

_extract_sections(s) ==
    LET positions == SectionPositions(s)
    IN  FullTextFallback(FillSections(positions, Len(positions), s), s)

----------------------------------------------------------------------------
(* ReviewResult and the review rubric *)

ReviewResult(name, original, issues, suggestions, revised, score) ==
    [section_name |-> name, original_content |-> original, issues |-> issues,
     suggestions |-> suggestions, revised_content |-> revised, score |-> score]

CanonicalNames ==
    {"Rationale", "ResearchContent", "ResearchPlan", "Innovation",
     "ExpectedOutcomes", "ResearchFoundation"}

\* REVIEW_CRITERIA[name]["keywords"], each keyword named in English:
\*   Rationale: 研究背景, 国内外, 研究现状, 意义, 必要性, 科学问题
\*   ResearchContent: 研究内容, 研究问题, 核心问题, 研究要点
\*   ResearchPlan: 技术路线, 研究方法, 实验, 步骤, 进度
\*   Innovation: 创新, 特色, 首次, 新方法, 新理论
\*   ExpectedOutcomes: 成果, 论文, 专利, 指标, 应用
\*   ResearchFoundation: 基础, 前期, 团队, 条件, 积累
REVIEW_CRITERIA(name) ==
    CASE name = "Rationale" ->
            <<"background", "home-and-abroad", "state-of-research", "meaning",
              "necessity", "scientific-problem">>
      [] name = "ResearchContent" ->
            <<"research-content", "research-problem", "core-problem", "key-points">>
      [] name = "ResearchPlan" ->
            <<"technical-route", "research-method", "experiment", "steps", "schedule">>
      [] name = "Innovation" ->
            <<"innovation", "feature", "first-time", "new-method", "new-theory">>
      [] name = "ExpectedOutcomes" ->
            <<"outcome", "paper", "patent", "indicator", "application">>
      [] name = "ResearchFoundation" ->
            <<"foundation", "preliminary", "team", "conditions", "accumulation">>

\* The mutant of Criteria: an unknown name gets the rubric of 研究内容.
CriteriaDefaultResearchContent(name) ==
    IF name \in CanonicalNames THEN REVIEW_CRITERIA(name)
    ELSE REVIEW_CRITERIA("ResearchContent")

\* REVIEW_CRITERIA.get(section_name, REVIEW_CRITERIA["立项依据"])
Criteria(name) ==
    IF name \in CanonicalNames THEN REVIEW_CRITERIA(name) ELSE REVIEW_CRITERIA("Rationale")

\* The keywords that occur in the text a token stands for.
\*   "Kw:Rationale" 研究背景国内外研究现状意义必要性科学问题
\*   "Kw:ResearchContent" 研究内容研究问题核心问题研究要点
\*   "Kw:Meaning" 意义
\* and the heading tokens, which contain the keyword that is part of them.
KeywordsIn(tok) ==
    CASE tok = "Kw:Rationale" ->
            {"background", "home-and-abroad", "state-of-research", "meaning",
             "necessity", "scientific-problem"}
      [] tok = "Kw:ResearchContent" ->
            {"research-content", "research-problem", "core-problem", "key-points"}
      [] tok = "Kw:Meaning" -> {"meaning"}
      [] tok = "Background&Meaning" -> {"background", "meaning"}
      [] tok = "2.ResearchContent" -> {"research-content"}
      [] tok = "4.Innovation" -> {"innovation"}
      [] tok = "5.ExpectedOutcomes" -> {"outcome"}
      [] tok = "6.ResearchFoundation" -> {"foundation"}
      [] OTHER -> {}

\* kw in content
Contains(s, kw) == \E i \in 1..Len(s) : kw \in KeywordsIn(s[i])

\* re.search(r"[（(][一二三四五1-5][）)]", content): "(1)" is such a marker.
HasEnumeration(s) == \E i \in 1..Len(s) : s[i] = "(1)"

\* re.search(r"\[\d+\]", content): "[1]" is such a citation.
HasCitation(s) == \E i \in 1..Len(s) : s[i] = "[1]"

\* ', '.join(l)
RECURSIVE Join(_)
Join(l) ==
    IF l = <<>> THEN <<>>
    ELSE IF Len(l) = 1 THEN l
    ELSE <<Head(l), ", ">> \o Join(Tail(l))

----------------------------------------------------------------------------
(* ProposalReviewer._review_rule_based *)

\* The length below which a content is too short.
MinReviewLen == 500

\* The keywords of the rubric that are not in the content, in rubric order.
RECURSIVE MissingKeywords(_, _)
MissingKeywords(keywords, s) ==
    IF keywords = <<>> THEN <<>>
    ELSE (IF Contains(s, Head(keywords)) THEN <<>> ELSE <<Head(keywords)>>)
         \o MissingKeywords(Tail(keywords), s)

\* The mutant of IntOfHalves: rounding half up instead of truncation.
RoundOfHalves(h) == (h + 1) \div 2

\* int(x) for x given in halves: truncation toward zero.
IntOfHalves(h) == IF h >= 0 THEN h \div 2 ELSE -((-h) \div 2)

\* The mutant of RuleScoreHalves: the keyword deduction is truncated to an
\* integer before it is subtracted.
RuleScoreHalvesTruncatedDeduction(name, s) ==
    14 - (IF len(s) < MinReviewLen THEN 2 ELSE 0)
       - 2 * (Len(MissingKeywords(Criteria(name), s)) \div 2)
       - (IF name = "Rationale" /\ ~HasCitation(s) THEN 2 ELSE 0)

\* The mutant of RuleScoreHalves: a missing keyword costs a whole point.
RuleScoreHalvesWholePoint(name, s) ==
    14 - (IF len(s) < MinReviewLen THEN 2 ELSE 0)
       - 2 * Len(MissingKeywords(Criteria(name), s))
       - (IF name = "Rationale" /\ ~HasCitation(s) THEN 2 ELSE 0)

\* The mutant of RuleScoreHalves: a missing citation costs nothing.
RuleScoreHalvesNoCitation(name, s) ==
    14 - (IF len(s) < MinReviewLen THEN 2 ELSE 0)
       - Len(MissingKeywords(Criteria(name), s))

\* The score before clamping, in halves of a point (the base score is 7,
\* a missing keyword costs 0.5).
RuleScoreHalves(name, s) ==
    14 - (IF len(s) < MinReviewLen THEN 2 ELSE 0)
       - Len(MissingKeywords(Criteria(name), s))
       - (IF name = "Rationale" /\ ~HasCitation(s) THEN 2 ELSE 0)

\* max(1, min(10, int(score)))
Max2(a, b) == IF a >= b THEN a ELSE b

Min2(a, b) == IF a <= b THEN a ELSE b

RuleScore(name, s) == Max2(1, Min2(10, IntOfHalves(RuleScoreHalves(name, s))))

\* The mutant of RuleIssues: the citation check applies to every name that
\* is reviewed under the rubric of 立项依据.
RuleIssuesCitationByRubric(name, s) ==
    (IF len(s) < MinReviewLen THEN << <<"TooShort">> >> ELSE <<>>)
    \o (IF MissingKeywords(Criteria(name), s) # <<>>
        THEN << <<"MissingKeyContent:">> \o Join(MissingKeywords(Criteria(name), s)) >>
        ELSE <<>>)
    \o (IF ~HasEnumeration(s) THEN << <<"NoClearStructure">> >> ELSE <<>>)
    \o (IF Criteria(name) = REVIEW_CRITERIA("Rationale") /\ ~HasCitation(s)
        THEN << <<"NoCitationMarks">> >> ELSE <<>>)

\* The issues appended by the four checks, in order.
RuleIssues(name, s) ==
    (IF len(s) < MinReviewLen THEN << <<"TooShort">> >> ELSE <<>>)
    \o (IF MissingKeywords(Criteria(name), s) # <<>>
        THEN << <<"MissingKeyContent:">> \o Join(MissingKeywords(Criteria(name), s)) >>
        ELSE <<>>)
    \o (IF ~HasEnumeration(s) THEN << <<"NoClearStructure">> >> ELSE <<>>)
    \o (IF name = "Rationale" /\ ~HasCitation(s) THEN << <<"NoCitationMarks">> >> ELSE <<>>)

\* The mutant of RuleSuggestions: the structure check appends an issue and
\* no suggestion.
RuleSuggestionsNoStructure(name, s) ==
    (IF len(s) < MinReviewLen THEN << <<"ExpandContent">> >> ELSE <<>>)
    \o (IF MissingKeywords(Criteria(name), s) # <<>>
        THEN << <<"PleaseAdd:">> \o Join(MissingKeywords(Criteria(name), s)) >>
        ELSE <<>>)
    \o (IF name = "Rationale" /\ ~HasCitation(s) THEN << <<"AddCitations">> >> ELSE <<>>)

\* The suggestions appended by the four checks, in order.
RuleSuggestions(name, s) ==
    (IF len(s) < MinReviewLen THEN << <<"ExpandContent">> >> ELSE <<>>)
    \o (IF MissingKeywords(Criteria(name), s) # <<>>
        THEN << <<"PleaseAdd:">> \o Join(MissingKeywords(Criteria(name), s)) >>
        ELSE <<>>)
    \o (IF ~HasEnumeration(s) THEN << <<"UseNumberedLevels">> >> ELSE <<>>)
    \o (IF name = "Rationale" /\ ~HasCitation(s) THEN << <<"AddCitations">> >> ELSE <<>>)

\* The mutant of OrPlaceholder: an empty list is left empty.
OrNothing(list, placeholder) == list

\* issues if issues else [placeholder]
OrPlaceholder(list, placeholder) == IF list # <<>> THEN list ELSE <<placeholder>>

\* The mutant of _review_rule_based: the reviewer keeps count of its reviews
\* and lowers the score of a content it has seen before.
_review_rule_based_counting(name, s) ==
    ReviewResult(name, s,
                 OrPlaceholder(RuleIssues(name, s), <<"ContentMeetsRequirements">>),
                 OrPlaceholder(RuleSuggestions(name, s), <<"DetailsCanBeRefined">>),
                 s,
                 Max2(1, RuleScore(name, s) - Len(calls)))

_review_rule_based(name, s) ==
    ReviewResult(name, s,
                 OrPlaceholder(RuleIssues(name, s), <<"ContentMeetsRequirements">>),
                 OrPlaceholder(RuleSuggestions(name, s), <<"DetailsCanBeRefined">>),
                 s,
                 RuleScore(name, s))

----------------------------------------------------------------------------
(* ProposalReviewer._parse_review_response                                 *)
(* Tokens of a response: "Score" 评分, "MainIssues" 主要问题,              *)
(* "Suggestions" 修改建议, "RevisedFull" 修改后的完整内容, "##", ":"        *)
(* (either colon), "." (a full stop or 、), the digits, "/", "x" (any      *)
(* other visible character), "SP" and "NL".                                *)

Digits == {"0", "1", "2", "3", "4", "5", "6", "7", "8", "9"}

DigitValue(d) ==
    CASE d = "0" -> 0 [] d = "1" -> 1 [] d = "2" -> 2 [] d = "3" -> 3
      [] d = "4" -> 4 [] d = "5" -> 5 [] d = "6" -> 6 [] d = "7" -> 7
      [] d = "8" -> 8 [] d = "9" -> 9

\* int(digits)
RECURSIVE int(_)
int(ds) ==
    IF ds = <<>> THEN 0
    ELSE 10 * int(SubSeq(ds, 1, Len(ds) - 1)) + DigitValue(ds[Len(ds)])

\* \s*: the first index from j on that holds no whitespace (Len + 1 if none).
RECURSIVE SkipWs(_, _)
SkipWs(r, j) ==
    IF j <= Len(r) /\ r[j] \in Whitespace THEN SkipWs(r, j + 1) ELSE j

\* \d+: the first index from j on that holds no digit.
RECURSIVE SkipDigits(_, _)
SkipDigits(r, j) ==
    IF j <= Len(r) /\ r[j] \in Digits THEN SkipDigits(r, j + 1) ELSE j

\* $ (no MULTILINE): the end of the string, or just before a final newline.
AtEnd(r, q) == q = Len(r) + 1 \/ (q = Len(r) /\ r[q] = "NL")

\* r"评分[：:]\s*(\d+)" matched at index i.
ScoreMatchAt(r, i) ==
    /\ r[i] = "Score"
    /\ i + 1 <= Len(r)
    /\ r[i + 1] = ":"
    /\ SkipWs(r, i + 2) <= Len(r)
    /\ r[SkipWs(r, i + 2)] \in Digits

\* The mutant of ParsedScore: the last score line is used instead of the first.
ParsedScoreLast(r) ==
    LET hits == {i \in 1..Len(r) : ScoreMatchAt(r, i)}
    IN  IF hits = {} THEN 6
        ELSE LET last == CHOOSE i \in hits : \A j \in hits : j <= i
                 d == SkipWs(r, last + 2)
             IN  int(SubSeq(r, d, SkipDigits(r, d) - 1))

\* score = int(score_match.group(1)) if score_match else 6
ParsedScore(r) ==
    LET hits == {i \in 1..Len(r) : ScoreMatchAt(r, i)}
    IN  IF hits = {} THEN 6
        ELSE LET d == SkipWs(r, Min(hits) + 2)
             IN  int(SubSeq(r, d, SkipDigits(r, d) - 1))

\* The mutant of ClampScore: only the upper bound is applied.
ClampScoreUpperOnly(score) == Min2(10, score)

\* min(10, max(1, score))
ClampScore(score) == Min2(10, Max2(1, score))

\* re.search(heading + r"[：:]?\s*([\s\S]*?)(?=stop|$)", response): group 1 of
\* the leftmost match, found = FALSE when the heading does not occur.
HeadingGroup(r, heading, stops) ==
    LET hits == {i \in 1..Len(r) : r[i] = heading}
    IN  IF hits = {} THEN [found |-> FALSE, group |-> <<>>]
        ELSE LET h == Min(hits)
                 c == IF h + 1 <= Len(r) /\ r[h + 1] = ":" THEN h + 2 ELSE h + 1
                 p == SkipWs(r, c)
                 q == Min({j \in p..(Len(r) + 1) :
                              \/ AtEnd(r, j)
                              \/ (j <= Len(r) /\ r[j] \in stops)})
             IN  [found |-> TRUE, group |-> SubSeq(r, p, q - 1)]

\* The lookahead (?=\n\d+[\.\、]|\n\n|$) at index q of g.
ItemLookahead(g, q) ==
    \/ AtEnd(g, q)
    \/ /\ q + 1 <= Len(g)
       /\ g[q] = "NL"
       /\ \/ g[q + 1] = "NL"
          \/ /\ g[q + 1] \in Digits
             /\ SkipDigits(g, q + 1) <= Len(g)
             /\ g[SkipDigits(g, q + 1)] = "."

\* (.+?) from index s on: the last index of the shortest run of characters
\* other than newline after which the lookahead holds; 0 when there is none.
RECURSIVE ItemEnd(_, _)
ItemEnd(g, e) ==
    IF e > Len(g) \/ g[e] = "NL" THEN 0
    ELSE IF ItemLookahead(g, e + 1) THEN e
    ELSE ItemEnd(g, e + 1)

\* \s* is greedy and gives whitespace back: the item starts at the greatest
\* index s in lo..hi from which (.+?) and the lookahead succeed; 0 otherwise.
RECURSIVE ItemStart(_, _, _)
ItemStart(g, s, lo) ==
    IF s < lo THEN 0
    ELSE IF s <= Len(g) /\ ItemEnd(g, s) # 0 THEN s
    ELSE ItemStart(g, s - 1, lo)

\* re.findall(r"\d+[\.\、]\s*(.+?)(?=\n\d+[\.\、]|\n\n|$)", g), scanning from k.
RECURSIVE FindItems(_, _)
FindItems(g, k) ==
    IF k > Len(g) THEN <<>>
    ELSE LET dot == SkipDigits(g, k)
             s == IF g[k] \in Digits /\ dot <= Len(g) /\ g[dot] = "."
                  THEN ItemStart(g, SkipWs(g, dot + 1), dot + 1)
                  ELSE 0
         IN  IF s # 0
             THEN <<SubSeq(g, s, ItemEnd(g, s))>> \o FindItems(g, ItemEnd(g, s) + 1)
             ELSE FindItems(g, k + 1)

\* [m.strip() for m in matches if m.strip()]
RECURSIVE StripNonEmpty(_)
StripNonEmpty(ms) ==
    IF ms = <<>> THEN <<>>
    ELSE (IF strip(Head(ms)) # <<>> THEN <<strip(Head(ms))>> ELSE <<>>)
         \o StripNonEmpty(Tail(ms))

\* The numbered items under a heading; empty when the heading is absent.
ExtractItems(r, heading, stops) ==
    LET m == HeadingGroup(r, heading, stops)
    IN  IF m.found THEN StripNonEmpty(FindItems(m.group, 1)) ELSE <<>>

ParsedIssues(r) == ExtractItems(r, "MainIssues", {"##", "Suggestions"})

\* The stop 修改后 is a prefix of the revised-content heading.
ParsedSuggestions(r) == ExtractItems(r, "Suggestions", {"##", "RevisedFull"})

\* The mutant of ParsedRevised: without the heading nothing is kept.
ParsedRevisedOrNothing(r) ==
    LET m == HeadingGroup(r, "RevisedFull", {})
    IN  IF m.found THEN strip(m.group) ELSE <<>>

\* re.search(r"修改后的完整内容[：:]?\s*([\s\S]*?)$", response), group 1
\* stripped; the whole response when the heading is absent.
ParsedRevised(r) ==
    LET m == HeadingGroup(r, "RevisedFull", {})
    IN  IF m.found THEN strip(m.group) ELSE r

\* The number of characters of the content that go into the prompt.
PromptLimit == 3000

\* The mutant of Take: the whole string.
TakeAll(s, n) == s

\* s[:n] for an n that falls on a token boundary or beyond the end.
RECURSIVE Take(_, _)
Take(s, n) ==
    IF s = <<>> \/ CharLen(Head(s)) > n THEN <<>>
    ELSE <<Head(s)>> \o Take(Tail(s), n - CharLen(Head(s)))

\* No prompt has been built.
NoPrompt == [section_name |-> "", content |-> <<>>, requirements |-> ""]

\* REVIEW_PROMPT.format(section_name=..., content=content[:3000],
\* requirements=...): the three values filled in; the requirements are
\* named by the rubric they come from.
BuildPrompt(name, s) ==
    [section_name |-> name,
     content |-> Take(s, PromptLimit),
     requirements |-> IF name \in CanonicalNames THEN name ELSE "Rationale"]

\* What generator._generate did: nothing yet, a response, or an exception.
NoOutcome == [kind |-> "none", response |-> <<>>]

Returned(r) == [kind |-> "response", response |-> r]

Raised == [kind |-> "raise", response |-> <<>>]

_parse_review_response(name, original, r) ==
    ReviewResult(name, original,
                 OrPlaceholder(ParsedIssues(r), <<"CouldNotExtractIssues">>),
                 OrPlaceholder(ParsedSuggestions(r), <<"CouldNotExtractSuggestions">>),
                 ParsedRevised(r),
                 ClampScore(ParsedScore(r)))

----------------------------------------------------------------------------
(* Specification SpecSeg: _extract_sections applied to every text of a     *)
(* bounded set.                                                            *)

SegAlphabet ==
    {"1.Rationale", "Background&Meaning", "2.ResearchContent", "3.ResearchPlan",
     "F50", "F51", "NL"}

RECURSIVE SeqsUpTo(_, _)
SeqsUpTo(S, n) ==
    IF n = 0 THEN {<<>>}
    ELSE LET shorter == SeqsUpTo(S, n - 1)
         IN  shorter \cup {Append(s, x) : s \in shorter, x \in S}

Texts == SeqsUpTo(SegAlphabet, MaxTextLen)

\* The values of the variables an operation has not touched yet.
NoFile == [ext |-> "", readable |-> FALSE, full_text |-> <<>>]

NoSegmentation == section_positions = <<>> /\ spans = <<>> /\ sections = <<>>

NoReviewer == generator = "none" /\ use_model = FALSE

NoReview ==
    /\ section_name = ""
    /\ content = <<>>
    /\ prompt = NoPrompt
    /\ outcome = NoOutcome
    /\ backend_calls = 0
    /\ calls = <<>>

NoReply == [kind |-> "none"]

NoApp == review_results = <<>> /\ reply = NoReply

NoData == processed_hashes = {} /\ returned = <<>>

NoSession ==
    /\ file = NoFile
    /\ results = <<>>
    /\ error = "none"
    /\ document = <<>>
    /\ NoApp
    /\ NoData

InitSeg ==
    /\ pc = "segment"
    /\ text \in Texts
    /\ NoSegmentation
    /\ NoReviewer
    /\ NoReview
    /\ NoSession

ExtractSections ==
    /\ pc = "segment"
    /\ section_positions' = SectionPositions(text)
    /\ spans' = KeptSpans(SectionPositions(text), Len(SectionPositions(text)), text)
    /\ sections' = _extract_sections(text)
    /\ pc' = "segmented"
    /\ UNCHANGED <<text, reviewerVars, reviewVars, sessionVars>>

NextSeg == ExtractSections

SpecSeg == InitSeg /\ [][NextSeg]_vars

----------------------------------------------------------------------------
(* ProposalReviewer.review_section and _review_with_model, as steps         *)

\* The mutant of UsesModel: the flag use_model is ignored.
UsesModelIgnoringFlag == generator # "none"

\* if use_model and self.generator
UsesModel == use_model /\ generator # "none"

\* The mutant of _review_with_model: an exception of the backend is handled
\* as an empty response instead of the rule-based review.
_review_with_model_no_fallback(name, s, o) ==
    _parse_review_response(name, s, o.response)

\* _review_with_model once generator._generate has returned or raised: the
\* parsed response, or the rule-based review in the except branch.
_review_with_model(name, s, o) ==
    IF o.kind = "raise"
    THEN _review_rule_based(name, s)
    ELSE _parse_review_response(name, s, o.response)

CallRecord(path, o, result) ==
    [section_name |-> section_name, content |-> content, prompt |-> prompt,
     path |-> path, outcome |-> o, result |-> result]

\* review_section on the rule-based branch.
RuleReview ==
    /\ pc = "review"
    /\ ~UsesModel
    /\ calls' = Append(calls, CallRecord("rule", NoOutcome,
                                         _review_rule_based(section_name, content)))
    /\ pc' = "reviewed"
    /\ UNCHANGED <<segVars, reviewerVars, section_name, content, prompt, outcome,
                   backend_calls, sessionVars>>

\* review_section on the model branch: the prompt is built, and
\* self.generator._generate(prompt, system_prompt) returns or raises.
BackendCall(outcomes) ==
    /\ pc = "review"
    /\ UsesModel
    /\ generator = "backend"
    /\ prompt' = BuildPrompt(section_name, content)
    /\ \E o \in outcomes : outcome' = o
    /\ backend_calls' = backend_calls + 1
    /\ pc' = "generated"
    /\ UNCHANGED <<segVars, reviewerVars, section_name, content, calls, sessionVars>>

\* review_section on the model branch when the generator is an NSFCGenerator
\* (the generator WebApp passes to ProposalReviewer): the class defines
\* _call_ollama and _call_local and no _generate, so evaluating
\* self.generator._generate raises AttributeError inside the try, before
\* anything is called.
MissingGenerate ==
    /\ pc = "review"
    /\ UsesModel
    /\ generator = "NSFCGenerator"
    /\ prompt' = BuildPrompt(section_name, content)
    /\ outcome' = Raised
    /\ pc' = "generated"
    /\ UNCHANGED <<segVars, reviewerVars, section_name, content, backend_calls,
                   calls, sessionVars>>

\* The rest of _review_with_model: the try body or the except branch.
ModelResult ==
    /\ pc = "generated"
    /\ calls' = Append(calls,
                       CallRecord(IF outcome.kind = "raise" THEN "fallback" ELSE "model",
                                  outcome,
                                  _review_with_model(section_name, content, outcome)))
    /\ prompt' = NoPrompt
    /\ outcome' = NoOutcome
    /\ pc' = "reviewed"
    /\ UNCHANGED <<segVars, reviewerVars, section_name, content, backend_calls,
                   sessionVars>>

----------------------------------------------------------------------------
(* Specification SpecSection: one call of review_section, for every input   *)
(* of a bounded set and every response of a bounded set.                   *)

MaxParts == 2

\* Pieces of a response, well-formed and garbled.
ResponseFragments ==
    { <<"##", "SP", "Score", ":", "8", "/", "1", "0", "NL">>,
      <<"Score", ":", "0">>,
      <<"Score", ":", "SP", "9", "9">>,
      <<"Score", "x">>,
      <<"##", "SP", "MainIssues", "NL", "1", ".", "SP", "x", "NL", "2", ".", "SP", "x", "x", "NL">>,
      <<"MainIssues", ":", "NL">>,
      <<"##", "SP", "Suggestions", "NL", "1", ".", "x", "NL">>,
      <<"##", "SP", "RevisedFull", "NL", "x", "x", "NL">>,
      <<"x", "NL">> }

RECURSIVE Concatenations(_, _)
Concatenations(S, n) ==
    IF n = 0 THEN {<<>>}
    ELSE LET shorter == Concatenations(S, n - 1)
         IN  shorter \cup {a \o b : a \in shorter, b \in S}

Responses == Concatenations(ResponseFragments, MaxParts)

SectionOutcomes == {Raised} \cup {Returned(r) : r \in Responses}

SectionNames == {"Rationale", "ResearchContent", "FullText"}

SectionContents ==
    { <<>>,
      <<"F51">>,
      <<"F3000", "x", "[1]">>,
      <<"F500", "Kw:Rationale", "(1)", "[1]">>,
      <<"F500", "Kw:ResearchContent", "(1)">> }

InitSection ==
    /\ pc = "review"
    /\ text = <<>>
    /\ NoSegmentation
    /\ generator \in {"none", "backend", "NSFCGenerator"}
    /\ use_model \in BOOLEAN
    /\ section_name \in SectionNames
    /\ content \in SectionContents
    /\ prompt = NoPrompt
    /\ outcome = NoOutcome
    /\ backend_calls = 0
    /\ calls = <<>>
    /\ NoSession

NextSection ==
    \/ RuleReview
    \/ BackendCall(SectionOutcomes)
    \/ MissingGenerate
    \/ ModelResult

SpecSection == InitSection /\ [][NextSection]_vars

----------------------------------------------------------------------------
(* Specification SpecRule: rule-based review_section called repeatedly on   *)
(* the same input, for every input of a bounded set.                       *)

MaxContentLen == 4

MaxCalls == 2

RuleAlphabet ==
    {"F500", "Kw:Rationale", "Kw:ResearchContent", "Kw:Meaning", "(1)", "[1]"}

RuleContents == SeqsUpTo(RuleAlphabet, MaxContentLen)

InitRule ==
    /\ pc = "review"
    /\ text = <<>>
    /\ NoSegmentation
    /\ generator \in {"none", "backend", "NSFCGenerator"}
    /\ use_model \in BOOLEAN
    /\ ~UsesModel
    /\ section_name \in SectionNames
    /\ content \in RuleContents
    /\ prompt = NoPrompt
    /\ outcome = NoOutcome
    /\ backend_calls = 0
    /\ calls = <<>>
    /\ NoSession

\* The caller calls review_section again with the same arguments.
CallAgain ==
    /\ pc = "reviewed"
    /\ Len(calls) < MaxCalls
    /\ pc' = "review"
    /\ UNCHANGED <<segVars, reviewerVars, reviewVars, sessionVars>>

NextRule == RuleReview \/ CallAgain

SpecRule == InitRule /\ [][NextRule]_vars

----------------------------------------------------------------------------
(* ProposalReviewer.parse_proposal and review_full_proposal                 *)

\* os.path.splitext(file_path)[1].lower()
Lower(ext) ==
    CASE ext = ".PDF" -> ".pdf"
      [] ext = ".DOCX" -> ".docx"
      [] OTHER -> ext

\* The branches of parse_proposal: PDFParser, DocxParser, or ValueError.
Decoder(ext) ==
    IF Lower(ext) = ".pdf" THEN "pdf"
    ELSE IF Lower(ext) \in {".docx", ".doc"} THEN "docx"
    ELSE "unsupported"

\* parse_proposal: the decoder returns the full text and the text is
\* segmented, or the extension is refused, or the decoder raises.
ParseProposal ==
    /\ pc = "start"
    /\ IF Decoder(file.ext) = "unsupported"
       THEN /\ error' = "ValueError"
            /\ pc' = "raised"
            /\ UNCHANGED segVars
       ELSE IF ~file.readable
       THEN /\ error' = "DecoderError"
            /\ pc' = "raised"
            /\ UNCHANGED segVars
       ELSE /\ text' = file.full_text
            /\ section_positions' = SectionPositions(file.full_text)
            /\ spans' = KeptSpans(SectionPositions(file.full_text),
                                  Len(SectionPositions(file.full_text)),
                                  file.full_text)
            /\ sections' = _extract_sections(file.full_text)
            /\ pc' = "loop"
            /\ UNCHANGED error
    /\ UNCHANGED <<reviewerVars, reviewVars, file, results, document, appVars,
                   dataVars>>

\* for section_name, content in sections.items(): the next item, and the
\* call of review_section on it.
NextItem ==
    /\ pc = "loop"
    /\ Len(results) < Len(sections)
    /\ section_name' = sections[Len(results) + 1].key
    /\ content' = sections[Len(results) + 1].value
    /\ pc' = "review"
    /\ UNCHANGED <<segVars, reviewerVars, prompt, outcome, backend_calls, calls,
                   sessionVars>>

\* The mutant of StoreResult: the result is put in front of the mapping.
StoreResultInFront ==
    /\ pc = "reviewed"
    /\ results' = <<[key |-> section_name, value |-> calls[Len(calls)].result]>>
                   \o results
    /\ pc' = "loop"
    /\ UNCHANGED <<segVars, reviewerVars, reviewVars, file, error, document,
                   appVars, dataVars>>

\* results[section_name] = result
StoreResult ==
    /\ pc = "reviewed"
    /\ results' = DictSet(results, section_name, calls[Len(calls)].result)
    /\ pc' = "loop"
    /\ UNCHANGED <<segVars, reviewerVars, reviewVars, file, error, document,
                   appVars, dataVars>>

\* The mutant of ReturnResults: the return statement inside the loop.
ReturnInsideLoop ==
    /\ pc = "loop"
    /\ Len(results) >= 1 \/ Len(sections) = 0
    /\ pc' = "returned"
    /\ UNCHANGED <<segVars, reviewerVars, reviewVars, sessionVars>>

\* return results, once the loop has consumed every item.
ReturnResults ==
    /\ pc = "loop"
    /\ Len(results) = Len(sections)
    /\ pc' = "returned"
    /\ UNCHANGED <<segVars, reviewerVars, reviewVars, sessionVars>>

----------------------------------------------------------------------------
(* Specification Spec: review_full_proposal on every file of a bounded set, *)
(* with a backend that answers or raises on each call.                     *)

MaxDocLen == 5

DocAlphabet == {"1.Rationale", "2.ResearchContent", "3.ResearchPlan", "F51"}

Documents == SeqsUpTo(DocAlphabet, MaxDocLen)

Extensions == {".pdf", ".PDF", ".docx", ".DOCX", ".doc", ".txt", ""}

\* A proposal of three sections.
ThreeSections ==
    <<"1.Rationale", "F51", "2.ResearchContent", "F51", "3.ResearchPlan", "F51">>

\* Files: of every extension one the decoder cannot open and one holding a
\* single section; of the extensions .pdf and .docx one for every document
\* and one holding three sections.
Files ==
    {[ext |-> e, readable |-> FALSE, full_text |-> <<>>] : e \in Extensions}
    \cup {[ext |-> e, readable |-> TRUE, full_text |-> <<"1.Rationale", "F51">>] :
             e \in Extensions}
    \cup {[ext |-> e, readable |-> TRUE, full_text |-> ThreeSections] :
             e \in {".pdf", ".docx"}}
    \cup {[ext |-> e, readable |-> TRUE, full_text |-> d] :
             e \in {".pdf", ".docx"}, d \in Documents}

WellFormedResponse ==
    <<"##", "SP", "Score", ":", "8", "/", "1", "0", "NL",
      "##", "SP", "MainIssues", "NL", "1", ".", "SP", "x", "NL",
      "##", "SP", "Suggestions", "NL", "1", ".", "SP", "x", "NL",
      "##", "SP", "RevisedFull", "NL", "x", "x", "NL">>

SessionOutcomes == {Raised, Returned(WellFormedResponse), Returned(<<"x">>)}

Init ==
    /\ pc = "start"
    /\ text = <<>>
    /\ NoSegmentation
    /\ generator \in {"none", "backend", "NSFCGenerator"}
    /\ use_model \in BOOLEAN
    /\ NoReview
    /\ file \in Files
    /\ results = <<>>
    /\ error = "none"
    /\ document = <<>>
    /\ NoApp
    /\ NoData

Next ==
    \/ ParseProposal
    \/ NextItem
    \/ RuleReview
    \/ BackendCall(SessionOutcomes)
    \/ MissingGenerate
    \/ ModelResult
    \/ StoreResult
    \/ ReturnResults

Spec == Init /\ [][Next]_vars

----------------------------------------------------------------------------
(* ProposalReviewer.generate_revised_proposal *)

section_order ==
    <<"Rationale", "ResearchContent", "ResearchPlan", "Innovation",
      "ExpectedOutcomes", "ResearchFoundation">>

InSectionOrder(name) == \E k \in 1..Len(section_order) : section_order[k] = name

\* The three lines appended for one section: f"\n## {section_name}\n",
\* result.revised_content and "\n".
SectionLines(name, result) ==
    << <<"NL", "##", "SP", name, "NL">>, result.revised_content, <<"NL">> >>

\* for section_name in section_order: if section_name in results
RECURSIVE OrderedLines(_, _)
OrderedLines(d, k) ==
    IF k = 0 THEN <<>>
    ELSE OrderedLines(d, k - 1)
         \o (IF section_order[k] \in KeySet(d)
             THEN SectionLines(section_order[k], DictGet(d, section_order[k]))
             ELSE <<>>)

\* The mutant of OtherLines: the test "not in section_order" is missing.
RECURSIVE AllLines(_, _)
AllLines(d, i) ==
    IF i = 0 THEN <<>>
    ELSE AllLines(d, i - 1) \o SectionLines(d[i].key, d[i].value)

\* for section_name, result in results.items():
\*     if section_name not in section_order
RECURSIVE OtherLines(_, _)
OtherLines(d, i) ==
    IF i = 0 THEN <<>>
    ELSE OtherLines(d, i - 1)
         \o (IF ~InSectionOrder(d[i].key)
             THEN SectionLines(d[i].key, d[i].value)
             ELSE <<>>)

\* "\n".join(lines)
RECURSIVE JoinLines(_)
JoinLines(lines) ==
    IF lines = <<>> THEN <<>>
    ELSE IF Len(lines) = 1 THEN lines[1]
    ELSE lines[1] \o <<"NL">> \o JoinLines(Tail(lines))

\* The two lines every revised proposal starts with.
TitleLines == << <<"#", "SP", "RevisedProposal", "NL">>, <<"---", "NL">> >>

generate_revised_proposal(d) ==
    JoinLines(TitleLines \o OrderedLines(d, Len(section_order)) \o OtherLines(d, Len(d)))

----------------------------------------------------------------------------
(* Specification SpecAsm: generate_revised_proposal applied to every        *)
(* mapping of results of a bounded set.                                    *)

MaxResults == 3

AsmNames == CanonicalNames \cup {"FullText", "Other"}

AsmContents == {<<"x">>, <<"##", "SP", "x", "NL">>}

AsmResult(name, revised) ==
    ReviewResult(name, <<"F51">>, << <<"CouldNotExtractIssues">> >>,
                 << <<"CouldNotExtractSuggestions">> >>, revised, 6)

\* The mappings of at most n results with distinct names, in every order.
RECURSIVE ResultMaps(_)
ResultMaps(n) ==
    IF n = 0 THEN {<<>>}
    ELSE LET shorter == ResultMaps(n - 1)
         IN  shorter \cup
             UNION {{Append(d, [key |-> k, value |-> AsmResult(k, c)]) :
                        k \in AsmNames \ KeySet(d), c \in AsmContents} :
                    d \in shorter}

InitAsm ==
    /\ pc = "assemble"
    /\ text = <<>>
    /\ NoSegmentation
    /\ NoReviewer
    /\ NoReview
    /\ file = NoFile
    /\ results \in ResultMaps(MaxResults)
    /\ error = "none"
    /\ document = <<>>
    /\ NoApp
    /\ NoData

GenerateRevised ==
    /\ pc = "assemble"
    /\ document' = generate_revised_proposal(results)
    /\ pc' = "assembled"
    /\ UNCHANGED <<segVars, reviewerVars, reviewVars, file, results, error,
                   appVars, dataVars>>

NextAsm == GenerateRevised

SpecAsm == InitAsm /\ [][NextAsm]_vars

----------------------------------------------------------------------------
(* ProposalReviewer.generate_review_report                                 *)
(* Tokens of a report: "ReviewReport" 📋 国自然申请书审阅报告, "Chart" 📊,  *)
(* "Overall" 总体评价, "AverageScore" 平均得分, "SectionCount" 审阅模块数,  *)
(* "Memo" 📝, "ScoreLabel" 评分, "IssuesFound" 发现的问题,                  *)
(* "SuggestedChanges" 修改建议.                                            *)

DigitChar(d) ==
    CASE d = 0 -> "0" [] d = 1 -> "1" [] d = 2 -> "2" [] d = 3 -> "3"
      [] d = 4 -> "4" [] d = 5 -> "5" [] d = 6 -> "6" [] d = 7 -> "7"
      [] d = 8 -> "8" [] d = 9 -> "9"

\* str(n) of a natural number, as f"{n}" renders it.
RECURSIVE str(_)
str(n) ==
    IF n < 10 THEN <<DigitChar(n)>>
    ELSE Append(str(n \div 10), DigitChar(n % 10))

\* sum(r.score for r in results.values())
RECURSIVE total_score(_)
total_score(d) ==
    IF d = <<>> THEN 0
    ELSE total_score(SubSeq(d, 1, Len(d) - 1)) + d[Len(d)].value.score

\* The mutant of AverageTenths: the mean is cut after the first decimal.
AverageTenthsCut(total, n) ==
    IF n = 0 THEN 0 ELSE (10 * total) \div n

\* The number of tenths that f"{total / n:.1f}" shows (0 for n = 0): the
\* nearest tenth, a tie going to the even one.
AverageTenths(total, n) ==
    IF n = 0 THEN 0
    ELSE LET q == (10 * total) \div n
             r == (10 * total) % n
         IN  IF 2 * r < n THEN q
             ELSE IF 2 * r > n THEN q + 1
             ELSE IF q % 2 = 0 THEN q ELSE q + 1

\* f"{avg_score:.1f}"
FormatOneDecimal(tenths) ==
    str(tenths \div 10) \o <<".", DigitChar(tenths % 10)>>

\* for issue in result.issues: lines.append(f"- {issue}\n")
RECURSIVE BulletLines(_)
BulletLines(items) ==
    IF items = <<>> THEN <<>>
    ELSE << <<"-", "SP">> \o Head(items) \o <<"NL">> >> \o BulletLines(Tail(items))

\* The lines appended for one result.
ResultLines(name, result) ==
    << <<"##", "SP", "Memo", "SP", name, "NL">>,
       <<"**", "ScoreLabel", ":", "SP">> \o str(result.score)
           \o <<"/", "1", "0", "**", "NL", "NL">>,
       <<"###", "SP", "IssuesFound", "NL">> >>
    \o BulletLines(result.issues)
    \o << <<"NL", "###", "SP", "SuggestedChanges", "NL">> >>
    \o BulletLines(result.suggestions)
    \o << <<"NL", "---", "NL">> >>

\* for section_name, result in results.items()
RECURSIVE DetailLines(_, _)
DetailLines(d, i) ==
    IF i = 0 THEN <<>>
    ELSE DetailLines(d, i - 1) \o ResultLines(d[i].key, d[i].value)

\* The five lines every report starts with.
HeaderLines(d) ==
    << <<"#", "SP", "ReviewReport", "NL">>,
       <<"---", "NL">>,
       <<"##", "SP", "Chart", "SP", "Overall", "NL">>,
       <<"-", "SP", "**", "AverageScore", "**", ":", "SP">>
           \o FormatOneDecimal(AverageTenths(total_score(d), Len(d)))
           \o <<"/", "1", "0", "NL">>,
       <<"-", "SP", "**", "SectionCount", "**", ":", "SP">> \o str(Len(d))
           \o <<"NL", "NL">> >>

generate_review_report(d) ==
    JoinLines(HeaderLines(d) \o DetailLines(d, Len(d)))

----------------------------------------------------------------------------
(* Specification SpecReport: generate_review_report applied to every        *)
(* mapping of results of a bounded set.                                    *)

MaxReportLen == 3

ReportNames == {"Rationale", "Other", "FullText"}

ReportScores == {1, 7, 8, 10}

\* The (issues, suggestions) of the results of the reports.
ReportLists ==
    { [issues |-> << <<"TooShort">> >>, suggestions |-> << <<"ExpandContent">> >>],
      [issues |-> << <<"TooShort">>, <<"NoClearStructure">> >>,
       suggestions |-> << <<"ExpandContent">>, <<"UseNumberedLevels">> >>],
      [issues |-> << <<"ContentMeetsRequirements">> >>,
       suggestions |-> << <<"DetailsCanBeRefined">> >>] }

\* The mappings of at most n results with distinct names, in every order.
RECURSIVE ReportMaps(_)
ReportMaps(n) ==
    IF n = 0 THEN {<<>>}
    ELSE LET shorter == ReportMaps(n - 1)
         IN  shorter \cup
             UNION {{Append(d, [key |-> k,
                                value |-> ReviewResult(k, <<"F51">>, l.issues,
                                                       l.suggestions, <<"x">>, sc)]) :
                        k \in ReportNames \ KeySet(d), l \in ReportLists,
                        sc \in ReportScores} :
                    d \in shorter}

InitReport ==
    /\ pc = "report"
    /\ text = <<>>
    /\ NoSegmentation
    /\ NoReviewer
    /\ NoReview
    /\ file = NoFile
    /\ results \in ReportMaps(MaxReportLen)
    /\ error = "none"
    /\ document = <<>>
    /\ NoApp
    /\ NoData

GenerateReport ==
    /\ pc = "report"
    /\ document' = generate_review_report(results)
    /\ pc' = "reported"
    /\ UNCHANGED <<segVars, reviewerVars, reviewVars, file, results, error,
                   appVars, dataVars>>

NextReport == GenerateReport

SpecReport == InitReport /\ [][NextReport]_vars

----------------------------------------------------------------------------
(* WebApp (src/src/app.py): review_proposal, get_section_review and the     *)
(* export handlers.  The handlers run one at a time; pc = "idle" between    *)
(* two of them.  review_proposal calls parse_proposal (ParseProposal, which *)
(* leaves pc = "loop" when it returns and pc = "raised" when it raises) and *)
(* review_section for each section; calls holds the review_section calls of *)
(* the running request.                                                    *)

Warning(message) == [kind |-> "warning", message |-> message]

\* if avg_score >= 8 ... elif avg_score >= 6 ... else, for avg = total / n
ScoreClass(total, n) ==
    IF total >= 8 * n THEN "score-high"
    ELSE IF total >= 6 * n THEN "score-medium"
    ELSE "score-low"

\* The four values review_proposal returns after the loop.
ReviewReply(secs, d) ==
    [kind |-> "reviewed",
     names |-> Keys(secs),
     score_class |-> ScoreClass(total_score(d), Len(d)),
     score_text |-> FormatOneDecimal(AverageTenths(total_score(d), Len(d))),
     report |-> generate_review_report(d),
     revised |-> generate_revised_proposal(d)]

\* "\n".join([f"• {item}" for item in items])
RECURSIVE BulletText(_)
BulletText(items) ==
    IF items = <<>> THEN <<>>
    ELSE IF Len(items) = 1 THEN <<"*", "SP">> \o items[1]
    ELSE <<"*", "SP">> \o items[1] \o <<"NL">> \o BulletText(Tail(items))

get_section_review(d, name) ==
    IF d = <<>> \/ name \notin KeySet(d)
    THEN [kind |-> "notice", message |-> "ReviewFirst"]
    ELSE LET result == DictGet(d, name)
         IN  [kind |-> "section",
              score_text |-> <<"Score", ":", "SP">> \o str(result.score) \o <<"/", "1", "0">>,
              issues_text |-> BulletText(result.issues),
              suggestions_text |-> BulletText(result.suggestions),
              revised_content |-> result.revised_content]

\* What an export handler returns: None, or the path of a new file, given
\* here by the suffix and the content of the file.
None == [kind |-> "None"]

ExportedFile(suffix, body) == [kind |-> "file", suffix |-> suffix, content |-> body]

export_review_report(d) ==
    IF d = <<>> THEN None ELSE ExportedFile(".md", generate_review_report(d))

export_revised_proposal(d) ==
    IF d = <<>> THEN None ELSE ExportedFile(".md", generate_revised_proposal(d))

\* revised_content.split('\n\n')
RECURSIVE SplitParagraphs(_)
SplitParagraphs(s) ==
    LET cuts == {i \in 1..(Len(s) - 1) : s[i] = "NL" /\ s[i + 1] = "NL"}
    IN  IF cuts = {} THEN <<s>>
        ELSE <<SubSeq(s, 1, Min(cuts) - 1)>>
             \o SplitParagraphs(SubSeq(s, Min(cuts) + 2, Len(s)))

\* The paragraphs added for one section: the stripped non-blank pieces.
RECURSIVE StrippedParagraphs(_)
StrippedParagraphs(ps) ==
    IF ps = <<>> THEN <<>>
    ELSE (IF strip(Head(ps)) # <<>> THEN <<strip(Head(ps))>> ELSE <<>>)
         \o StrippedParagraphs(Tail(ps))

\* The headings and paragraphs of the document after its title, for the
\* first k names of section_order.
RECURSIVE DocxBlocks(_, _)
DocxBlocks(d, k) ==
    IF k = 0 THEN <<>>
    ELSE DocxBlocks(d, k - 1)
         \o (IF section_order[k] \in KeySet(d)
             THEN <<[heading |-> section_order[k],
                     paragraphs |-> StrippedParagraphs(SplitParagraphs(
                                        DictGet(d, section_order[k]).revised_content))]>>
             ELSE <<>>)

export_revised_docx(d) ==
    IF d = <<>> THEN None
    ELSE ExportedFile(".docx", DocxBlocks(d, Len(section_order)))

\* review_proposal(None)
ReviewNoFile ==
    /\ pc = "idle"
    /\ reply' = Warning("PleaseUpload")
    /\ UNCHANGED <<pc, segVars, reviewerVars, reviewVars, file, results, error,
                   document, review_results, dataVars>>

\* The uploaded files: texts over AppAlphabet up to MaxAppTextLen tokens, a
\* proposal of three sections, a file the decoder cannot open and a file
\* of an unsupported format.
MaxAppTextLen == 3

AppAlphabet == {"1.Rationale", "F51"}

AppFiles ==
    {[ext |-> ".pdf", readable |-> TRUE, full_text |-> t] :
        t \in SeqsUpTo(AppAlphabet, MaxAppTextLen)}
    \cup {[ext |-> ".docx", readable |-> TRUE, full_text |-> ThreeSections],
          [ext |-> ".pdf", readable |-> FALSE, full_text |-> <<>>],
          [ext |-> ".txt", readable |-> TRUE, full_text |-> <<"1.Rationale", "F51">>]}

\* review_proposal(file) up to the call of parse_proposal:
\* _ensure_initialized builds an NSFCGenerator and a ProposalReviewer on it.
BeginReview ==
    /\ pc = "idle"
    /\ \E f \in AppFiles : file' = f
    /\ generator' = "NSFCGenerator"
    /\ error' = "none"
    /\ calls' = <<>>
    /\ pc' = "start"
    /\ UNCHANGED <<segVars, use_model, section_name, content, prompt, outcome,
                   backend_calls, results, document, appVars, dataVars>>

\* The mutant of ParseFailed: the cached results are dropped on a failure.
ParseFailedClearing ==
    /\ pc = "raised"
    /\ reply' = [kind |-> "failed", message |-> error]
    /\ review_results' = <<>>
    /\ pc' = "idle"
    /\ UNCHANGED <<segVars, reviewerVars, reviewVars, file, results, error,
                   document, dataVars>>

\* except Exception as e: return the failure message.
ParseFailed ==
    /\ pc = "raised"
    /\ reply' = [kind |-> "failed", message |-> error]
    /\ pc' = "idle"
    /\ UNCHANGED <<segVars, reviewerVars, reviewVars, file, results, error,
                   document, review_results, dataVars>>

\* if not sections: return the warning; otherwise self.review_results = {}.
AfterParse ==
    /\ pc = "loop"
    /\ IF sections = <<>>
       THEN /\ reply' = Warning("CannotParse")
            /\ pc' = "idle"
            /\ UNCHANGED review_results
       ELSE /\ review_results' = <<>>
            /\ pc' = "app_loop"
            /\ UNCHANGED reply
    /\ UNCHANGED <<segVars, reviewerVars, reviewVars, file, results, error,
                   document, dataVars>>

\* for i, (section_name, content) in enumerate(section_list): the next item
\* and the call review_section(section_name, content, use_model=True).
AppNextItem ==
    /\ pc = "app_loop"
    /\ Len(review_results) < Len(sections)
    /\ section_name' = sections[Len(review_results) + 1].key
    /\ content' = sections[Len(review_results) + 1].value
    /\ use_model' = TRUE
    /\ pc' = "review"
    /\ UNCHANGED <<segVars, generator, prompt, outcome, backend_calls, calls,
                   sessionVars>>

\* self.review_results[section_name] = result
AppStore ==
    /\ pc = "reviewed"
    /\ review_results' = DictSet(review_results, section_name, calls[Len(calls)].result)
    /\ pc' = "app_loop"
    /\ UNCHANGED <<segVars, reviewerVars, reviewVars, file, results, error,
                   document, reply, dataVars>>

\* The report, the revised proposal and the average score, once the loop
\* has consumed every item.
AppFinish ==
    /\ pc = "app_loop"
    /\ Len(review_results) = Len(sections)
    /\ reply' = ReviewReply(sections, review_results)
    /\ pc' = "idle"
    /\ UNCHANGED <<segVars, reviewerVars, reviewVars, file, results, error,
                   document, review_results, dataVars>>

AppNames == {"Rationale", "ResearchContent", "FullText", "Other"}

GetSectionReview ==
    /\ pc = "idle"
    /\ \E name \in AppNames : reply' = get_section_review(review_results, name)
    /\ UNCHANGED <<pc, segVars, reviewerVars, reviewVars, file, results, error,
                   document, review_results, dataVars>>

ExportReviewReport ==
    /\ pc = "idle"
    /\ reply' = export_review_report(review_results)
    /\ UNCHANGED <<pc, segVars, reviewerVars, reviewVars, file, results, error,
                   document, review_results, dataVars>>

ExportRevisedProposal ==
    /\ pc = "idle"
    /\ reply' = export_revised_proposal(review_results)
    /\ UNCHANGED <<pc, segVars, reviewerVars, reviewVars, file, results, error,
                   document, review_results, dataVars>>

ExportRevisedDocx ==
    /\ pc = "idle"
    /\ reply' = export_revised_docx(review_results)
    /\ UNCHANGED <<pc, segVars, reviewerVars, reviewVars, file, results, error,
                   document, review_results, dataVars>>

\* WebApp.__init__: no generator, no reviewer, an empty review_results.
InitApp ==
    /\ pc = "idle"
    /\ text = <<>>
    /\ NoSegmentation
    /\ NoReviewer
    /\ NoReview
    /\ NoSession

NextApp ==
    \/ ReviewNoFile
    \/ BeginReview
    \/ ParseProposal
    \/ ParseFailed
    \/ AfterParse
    \/ AppNextItem
    \/ MissingGenerate
    \/ ModelResult
    \/ AppStore
    \/ AppFinish
    \/ GetSectionReview
    \/ ExportReviewReport
    \/ ExportRevisedProposal
    \/ ExportRevisedDocx

SpecApp == InitApp /\ [][NextApp]_vars

----------------------------------------------------------------------------
(* DataProcessor (src/src/data_processor.py): process_markdown_file and     *)
(* _create_section.  A Markdown file is given by the top-level elements of  *)
(* its HTML (soup.children): a record [tag, text], where text is            *)
(* element.get_text().strip(), a token sequence.  The tokens of titles,    *)
(* named in English:                                                       *)
(*   "T:Rationale" 立项依据   "T:StatusAndContent" 研究现状与研究内容        *)
(*   "T:Content" 研究内容     "T:Thanks" 致谢                               *)
(* "M1" and "M2" are two different texts of 128 characters that have the   *)
(* same MD5 digest.                                                        *)

\* SECTION_PATTERNS: section type -> patterns, in dictionary order.
SECTION_PATTERNS ==
    << [name |-> "Rationale",
        patterns |-> {"rationale", "background", "significance", "status-home-and-abroad",
                      "research-status", "literature-review", "background-and-meaning"}],
       [name |-> "ResearchContent",
        patterns |-> {"research-content", "research-problem", "key-points",
                      "research-scope", "core-problem", "main-content"}],
       [name |-> "ResearchPlan",
        patterns |-> {"research-plan", "technical-route", "research-method",
                      "experiment-design", "research-steps", "implementation-plan",
                      "methods-and-techniques"}],
       [name |-> "Innovation",
        patterns |-> {"innovation-points", "innovative-aspects", "features-and-innovation",
                      "innovativeness", "theoretical-innovation", "method-innovation",
                      "application-innovation"}],
       [name |-> "ExpectedOutcomes",
        patterns |-> {"expected-outcomes", "research-outcomes", "expected-output",
                      "outcome-forms", "assessment-indicators", "outcome-indicators"}],
       [name |-> "ResearchFoundation",
        patterns |-> {"research-foundation", "work-foundation", "preliminary-results",
                      "research-accumulation", "team-foundation", "experiment-conditions"}] >>

\* The patterns of SECTION_PATTERNS that occur in the text of a token.
PatternsInToken(tok) ==
    CASE tok = "T:Rationale" -> {"rationale"}
      [] tok = "T:StatusAndContent" -> {"research-status", "research-content"}
      [] tok = "T:Content" -> {"research-content"}
      [] OTHER -> {}

\* The patterns of SECTION_PATTERNS that re.search finds in a title.
PatternsIn(title) == UNION {PatternsInToken(title[i]) : i \in 1..Len(title)}

\* _identify_section_type: the first type with a pattern found in the
\* title, or "None".
_identify_section_type(title) ==
    LET hits == {k \in 1..Len(SECTION_PATTERNS) :
                    SECTION_PATTERNS[k].patterns \cap PatternsIn(title) # {}}
    IN  IF hits = {} THEN "None" ELSE SECTION_PATTERNS[Min(hits)].name

\* The default of the parameter min_content_length.
min_content_length == 100

\* hashlib.md5(content.encode()).hexdigest(): a function of the content
\* that is not injective; the digest is named by a content that has it.
md5(c) == [i \in 1..Len(c) |-> IF c[i] = "M2" THEN "M1" ELSE c[i]]

\* _extract_references: the set of the matches; only the first pattern,
\* a bracketed number, has matches in the tokens of the model.
_extract_references(c) == IF HasCitation(c) THEN {"1"} ELSE {}

\* The entries of academic_terms that occur in the text a token stands for.
AcademicTermsIn(tok) ==
    IF tok \in {"Kw:Rationale", "Kw:ResearchContent"} THEN {"research"} ELSE {}

\* _calculate_quality_score, in hundredths (the float is the sum of the same
\* parts, up to rounding).
_calculate_quality_score(c) ==
    LET length == IF len(c) > 500 THEN 30 ELSE IF len(c) > 200 THEN 20 ELSE 10
        structure == IF HasEnumeration(c) THEN 20 ELSE 0
        term_count == Cardinality(UNION {AcademicTermsIn(c[i]) : i \in 1..Len(c)})
        ref_count == Cardinality({i \in 1..Len(c) : c[i] = "[1]"})
        refs == IF ref_count > 0 THEN Min2(20, 2 * ref_count) ELSE 0
    IN  Min2(100, length + structure + Min2(30, 5 * term_count) + refs)

NSFCSection(section_type, title, c, source) ==
    [section_type |-> section_type, title |-> title, content |-> c,
     references |-> _extract_references(c), source_file |-> source,
     quality_score |-> _calculate_quality_score(c)]

\* The mutant of _create_section: no test of processed_hashes.
CreateSectionWithoutDedup(title, c, source, hashes) ==
    IF _identify_section_type(title) = "None" \/ len(c) < min_content_length
    THEN [created |-> FALSE, hashes |-> hashes]
    ELSE [created |-> TRUE,
          section |-> NSFCSection(_identify_section_type(title), title, c, source),
          hashes |-> hashes \cup {md5(c)}]

\* _create_section with processed_hashes = hashes: None and the hashes
\* unchanged, or the new section and the hashes with its digest added.
_create_section(title, c, source, hashes) ==
    IF \/ _identify_section_type(title) = "None"
       \/ len(c) < min_content_length
       \/ md5(c) \in hashes
    THEN [created |-> FALSE, hashes |-> hashes]
    ELSE [created |-> TRUE,
          section |-> NSFCSection(_identify_section_type(title), title, c, source),
          hashes |-> hashes \cup {md5(c)}]

\* The locals of process_markdown_file and processed_hashes; a
\* current_section of None is written as the empty string, which the code
\* treats alike.
ScanStart(hashes) ==
    [current_section |-> <<>>, current_content |-> <<>>, sections |-> <<>>,
     hashes |-> hashes]

\* if current_section and current_content: section = self._create_section(
\* current_section, '\n'.join(current_content), file_path); if section:
\* sections.append(section)
CloseSection(st, source) ==
    IF st.current_section # <<>> /\ st.current_content # <<>>
    THEN LET made == _create_section(st.current_section, JoinLines(st.current_content),
                                     source, st.hashes)
         IN  IF made.created
             THEN [st EXCEPT !.sections = Append(@, made.section), !.hashes = made.hashes]
             ELSE st
    ELSE st

\* The loop over soup.children, for the first n elements.
RECURSIVE ScanElements(_, _, _, _)
ScanElements(elements, n, source, hashes) ==
    IF n = 0 THEN ScanStart(hashes)
    ELSE LET st == ScanElements(elements, n - 1, source, hashes)
             e == elements[n]
         IN  IF e.tag \in {"h1", "h2", "h3"}
             THEN [CloseSection(st, source) EXCEPT !.current_section = e.text,
                                                   !.current_content = <<>>]
             ELSE IF e.tag \in {"p", "ul", "ol", "blockquote"} /\ st.current_section # <<>>
             THEN [st EXCEPT !.current_content = Append(@, e.text)]
             ELSE st

process_markdown_file(elements, source, hashes) ==
    CloseSection(ScanElements(elements, Len(elements), source, hashes), source)

\* Bounds: the elements of a file and the files processed.
MaxElements == 3

MaxFileCalls == 2

Elements ==
    {[tag |-> "h2", text |-> t] : t \in {<<"T:StatusAndContent">>, <<"T:Thanks">>}}
    \cup {[tag |-> "p", text |-> <<c>>] : c \in {"M1", "M2", "F49"}}
    \cup {[tag |-> "table", text |-> <<"M1">>]}

MarkdownFiles == SeqsUpTo(Elements, MaxElements)

\* DataProcessor.__init__: no hash has been recorded.
InitData ==
    /\ pc = "data"
    /\ text = <<>>
    /\ NoSegmentation
    /\ NoReviewer
    /\ NoReview
    /\ NoSession

\* process_markdown_file on the next file, which is named by its number.
ProcessMarkdownFile ==
    /\ pc = "data"
    /\ Len(returned) < MaxFileCalls
    /\ \E elements \in MarkdownFiles :
           LET source == Len(returned) + 1
               done == process_markdown_file(elements, source, processed_hashes)
           IN  /\ processed_hashes' = done.hashes
               /\ returned' = Append(returned, done.sections)
    /\ error' = "none"
    /\ UNCHANGED <<pc, segVars, reviewerVars, reviewVars, file, results, document,
                   appVars>>

\* process_markdown_file on a file that open() cannot read: the exception
\* leaves the call before anything is hashed.
ProcessUnreadableFile ==
    /\ pc = "data"
    /\ Len(returned) < MaxFileCalls
    /\ error' = "OSError"
    /\ UNCHANGED <<pc, segVars, reviewerVars, reviewVars, file, results, document,
                   appVars, dataVars>>

NextData == ProcessMarkdownFile \/ ProcessUnreadableFile

SpecData == InitData /\ [][NextData]_vars

----------------------------------------------------------------------------
(* Properties of _extract_sections (specification SpecSeg)                  *)

\* No heading pattern of section_patterns matches anywhere in the text.
NoHeadingMatches ==
    \A n \in 1..Len(section_patterns) :
        \A k \in 1..Len(section_patterns[n].patterns) :
            \A i \in 1..Len(text) :
                ~PatternMatches(section_patterns[n].patterns[k], text[i])

\* Index in the text of the heading recorded as the i-th position.
HeadingIndex(i) ==
    CHOOSE k \in 1..Len(text) : Offset(text, k) = section_positions[i].pos

\* Index of the heading that follows the i-th one, or one past the end.
NextHeadingIndex(i) ==
    IF i < Len(section_positions) THEN HeadingIndex(i + 1) ELSE Len(text) + 1

\* The text between the i-th heading and the next one, whitespace trimmed.
TextUnderHeading(i) ==
    strip(SubSeq(text, HeadingIndex(i) + 1, NextHeadingIndex(i) - 1))

\* The matched headings whose trimmed content is longer than 50 characters.
Survivors == {i \in 1..Len(section_positions) : len(TextUnderHeading(i)) > 50}

\* The names of a set of positions, in position order.
RECURSIVE NamesOf(_, _)
NamesOf(I, n) ==
    IF n = 0 THEN <<>>
    ELSE IF n \in I THEN Append(NamesOf(I, n - 1), section_positions[n].name)
    ELSE NamesOf(I, n - 1)

\* The span of the entry named k of the returned map: the catch-all entry
\* spans the whole text.
EntrySpan(k) ==
    IF k = "FullText" /\ \A j \in 1..Len(spans) : spans[j].name # k
    THEN [name |-> k, start |-> 0, end |-> len(text)]
    ELSE spans[CHOOSE j \in 1..Len(spans) : spans[j].name = k]

\* C5: when no heading pattern matches, the map has exactly one entry, named
\* FullText, whose value is the whole input text unchanged.
C5_NoHeadingFallback ==
    (pc = "segmented" /\ NoHeadingMatches)
        => sections = << [key |-> "FullText", value |-> text] >>

C5_Witness ==
    /\ pc = "segmented"
    /\ NoHeadingMatches
    /\ Len(text) >= 3
    /\ text[1] = "NL"
    /\ sections = << [key |-> "FullText", value |-> text] >>

\* C6 as stated: with k >= 1 matched headings the map holds exactly the
\* matched sections that survive the length filter, each value being the text
\* from just after its heading to the next matched heading, and the returned
\* spans partition the text (every character lies in exactly one of them).
C6_AsStated ==
    (pc = "segmented" /\ Len(section_positions) >= 1)
        => /\ Keys(sections) = NamesOf(Survivors, Len(section_positions))
           /\ \A i \in Survivors :
                  DictGet(sections, section_positions[i].name) = TextUnderHeading(i)
           /\ \A k \in 1..Len(text) :
                  Cardinality({j \in 1..Len(spans) :
                                  /\ spans[j].start <= Offset(text, k)
                                  /\ Offset(text, k) < spans[j].end}) = 1

\* C6 amended: with k >= 1 matched headings, if some matched section survives
\* the length filter the map holds exactly the survivors, keyed by canonical
\* name in position order, otherwise the single FullText entry with the whole
\* text; each survivor's value is the whitespace-trimmed text from just after
\* its heading to the next matched heading (or the end of the text); the
\* spans of all matched headings partition the text from the first matched
\* heading on, and each returned span is one of them.
C6_Segmentation ==
    (pc = "segmented" /\ Len(section_positions) >= 1)
        => /\ IF Survivors = {}
              THEN sections = << [key |-> "FullText", value |-> text] >>
              ELSE Keys(sections) = NamesOf(Survivors, Len(section_positions))
           /\ \A i \in Survivors :
                  DictGet(sections, section_positions[i].name) = TextUnderHeading(i)
           /\ \A k \in 1..Len(text) :
                  Cardinality({i \in 1..Len(section_positions) :
                                  /\ HeadingIndex(i) <= k
                                  /\ k < NextHeadingIndex(i)})
                      = IF k >= HeadingIndex(1) THEN 1 ELSE 0
           /\ \A j \in 1..Len(spans) :
                  \E i \in Survivors :
                      /\ spans[j].name = section_positions[i].name
                      /\ spans[j].start = Offset(text, HeadingIndex(i))
                      /\ spans[j].end = Offset(text, NextHeadingIndex(i))

C6_Witness ==
    /\ pc = "segmented"
    /\ Len(section_positions) = 2
    /\ section_positions[1].pos > 0
    /\ Survivors = {1}
    /\ text[Len(text) - 1] = "NL"
    /\ sections = << [key |-> section_positions[1].name, value |-> TextUnderHeading(1)] >>

\* C7 as stated: the entries iterate in ascending order of start offset, the
\* spans do not overlap and are contiguous (each ends where the next begins,
\* the last one at the end of the document).
C7_AsStated ==
    pc = "segmented"
        => /\ \A i \in 1..(Len(sections) - 1) :
                  /\ EntrySpan(sections[i].key).start < EntrySpan(sections[i + 1].key).start
                  /\ EntrySpan(sections[i].key).end = EntrySpan(sections[i + 1].key).start
           /\ EntrySpan(sections[Len(sections)].key).end = len(text)

\* Whether the matched section named k is the one recorded just before the
\* matched section named m (no matched heading lies between them).
AdjacentHeadings(k, m) ==
    \E i \in 1..(Len(section_positions) - 1) :
        section_positions[i].name = k /\ section_positions[i + 1].name = m

\* C7 amended: the entries iterate in ascending order of start offset and
\* their spans do not overlap; the span of entry i ends exactly where the span
\* of entry i+1 begins when no matched section between them was discarded,
\* and before it otherwise; the last span ends at the end of the document
\* when the last matched section was kept (or the map is the catch-all), and
\* before it otherwise.
C7_SpansOrdered ==
    pc = "segmented"
        => /\ \A i \in 1..Len(sections) :
                  EntrySpan(sections[i].key).start <= EntrySpan(sections[i].key).end
           /\ \A i \in 1..(Len(sections) - 1) :
                  LET a == EntrySpan(sections[i].key)
                      b == EntrySpan(sections[i + 1].key)
                  IN  /\ a.start < b.start
                      /\ a.end <= b.start
                      /\ (a.end = b.start) <=> AdjacentHeadings(a.name, b.name)
           /\ LET last == EntrySpan(sections[Len(sections)].key)
              IN  /\ last.end <= len(text)
                  /\ (last.end = len(text))
                        <=> \/ sections[Len(sections)].key = "FullText"
                            \/ section_positions[Len(section_positions)].name = last.name

C7_Witness ==
    /\ pc = "segmented"
    /\ Len(section_positions) = 3
    /\ Len(sections) = 2
    /\ EntrySpan(sections[1].key).end < EntrySpan(sections[2].key).start
    /\ EntrySpan(sections[2].key).end = len(text)

\* C8 as stated: a matched section is discarded exactly when its trimmed
\* content is shorter than 50 characters, and kept when it has 50 or more.
C8_AsStated ==
    pc = "segmented"
        => \A i \in 1..Len(section_positions) :
               (section_positions[i].name \notin KeySet(sections))
                   <=> len(TextUnderHeading(i)) < 50

\* C8 amended: a matched section is discarded exactly when its trimmed
\* content has at most 50 characters; it is kept when it has 51 or more.
C8_LengthFilter ==
    pc = "segmented"
        => \A i \in 1..Len(section_positions) :
               (section_positions[i].name \notin KeySet(sections))
                   <=> len(TextUnderHeading(i)) <= 50

C8_Witness ==
    /\ pc = "segmented"
    /\ \E i \in 1..Len(section_positions) :
           /\ len(TextUnderHeading(i)) = 50
           /\ section_positions[i].name \notin KeySet(sections)
    /\ \E i \in 1..Len(section_positions) :
           /\ len(TextUnderHeading(i)) = 51
           /\ section_positions[i].name \in KeySet(sections)

----------------------------------------------------------------------------
(* Properties of review_section (specifications SpecSection and SpecRule)   *)

\* C1: whatever the backend returns, the score of the result of a
\* model-backed review_section is an integer from 1 to 10.
C1_ScoreInRange ==
    \A i \in 1..Len(calls) :
        /\ calls[i].result.score \in Int
        /\ 1 <= calls[i].result.score
        /\ calls[i].result.score <= 10

C1_Witness ==
    /\ pc = "reviewed"
    /\ calls[1].path = "model"
    /\ ParsedScore(calls[1].outcome.response) = 0
    /\ calls[1].result.score = 1

\* None of the four checks of the rule-based review finds anything.
NoCheckFires(name, s) ==
    /\ len(s) >= 500
    /\ \A k \in 1..Len(Criteria(name)) : Contains(s, Criteria(name)[k])
    /\ HasEnumeration(s)
    /\ name = "Rationale" => HasCitation(s)

\* C2: on the model path, the rule-based path and the exception fallback
\* path, issues and suggestions are non-empty; when nothing was extracted
\* from the response, or no check of the rule-based review found anything,
\* the list is the single placeholder.
C2_NonEmptyLists ==
    \A i \in 1..Len(calls) :
        LET c == calls[i]
        IN  /\ c.result.issues # <<>>
            /\ c.result.suggestions # <<>>
            /\ \A k \in 1..Len(c.result.issues) : c.result.issues[k] # <<>>
            /\ \A k \in 1..Len(c.result.suggestions) : c.result.suggestions[k] # <<>>
            /\ (c.path = "model" /\ ParsedIssues(c.outcome.response) = <<>>)
                   => c.result.issues = << <<"CouldNotExtractIssues">> >>
            /\ (c.path = "model" /\ ParsedSuggestions(c.outcome.response) = <<>>)
                   => c.result.suggestions = << <<"CouldNotExtractSuggestions">> >>
            /\ (c.path \in {"rule", "fallback"} /\ NoCheckFires(c.section_name, c.content))
                   => /\ c.result.issues = << <<"ContentMeetsRequirements">> >>
                      /\ c.result.suggestions = << <<"DetailsCanBeRefined">> >>

C2_Witness ==
    /\ pc = "reviewed"
    /\ calls[1].path = "fallback"
    /\ NoCheckFires(calls[1].section_name, calls[1].content)
    /\ calls[1].result.issues = << <<"ContentMeetsRequirements">> >>
    /\ calls[1].result.suggestions = << <<"DetailsCanBeRefined">> >>

----------------------------------------------------------------------------
(* Properties of review_full_proposal (specification Spec)                  *)

\* C4: when the backend raises on a section, no exception reaches the caller,
\* the result of that section is the rule-based review of the same name and
\* content, and the batch still returns one result per section.
C4_BackendFailureIsolated ==
    /\ backend_calls > 0 => (pc # "raised" /\ error = "none")
    /\ \A i \in 1..Len(calls) :
           calls[i].outcome.kind = "raise"
               => calls[i].result = _review_rule_based(calls[i].section_name,
                                                       calls[i].content)
    /\ pc = "returned"
           => /\ Len(results) = Len(sections)
              /\ Len(calls) = Len(sections)
              /\ \A k \in 1..Len(sections) :
                     /\ results[k].key = sections[k].key
                     /\ results[k].value = calls[k].result
                     /\ results[k].value.section_name = sections[k].key
                     /\ results[k].value.original_content = sections[k].value

C4_Witness ==
    /\ pc = "returned"
    /\ Len(sections) = 3
    /\ Len(results) = 3
    /\ calls[2].outcome.kind = "raise"
    /\ calls[1].path = "model"
    /\ calls[3].path = "model"
    /\ results[2].value = _review_rule_based(sections[2].key, sections[2].value)

\* The extensions parse_proposal accepts.
SupportedFile ==
    file.ext \in {".pdf", ".PDF", ".docx", ".DOCX", ".doc"}

\* C10: a review session ends with a parse error raised before any section
\* is reviewed (unsupported extension or decoder failure, no result
\* produced), or with a returned mapping whose keys are the keys of the
\* section map; a partial mapping is never returned: until the return the
\* loop holds fewer results than sections and every review adds one.
C10_CompleteOrParseError ==
    /\ pc = "raised"
           => /\ error \in {"ValueError", "DecoderError"}
              /\ results = <<>>
              /\ calls = <<>>
              /\ backend_calls = 0
              /\ ~SupportedFile \/ ~file.readable
    /\ pc = "returned"
           => /\ error = "none"
              /\ SupportedFile /\ file.readable
              /\ Keys(results) = Keys(sections)
              /\ Len(sections) >= 1
    /\ error # "none" => pc = "raised"
    /\ pc = "loop" => Len(results) <= Len(sections)
    /\ pc \in {"review", "generated"} => Len(results) < Len(sections)
    /\ pc = "reviewed" => Len(calls) = Len(results) + 1

C10_Witness ==
    /\ pc = "returned"
    /\ Len(results) >= 2
    /\ backend_calls = 2

----------------------------------------------------------------------------
(* Properties of generate_revised_proposal (specification SpecAsm)          *)

\* The indices of the document at which a section header starts.
HeaderAt(i) ==
    /\ i + 4 <= Len(document)
    /\ document[i] = "NL"
    /\ document[i + 1] = "##"
    /\ document[i + 2] = "SP"
    /\ document[i + 3] \in KeySet(results)
    /\ document[i + 4] = "NL"

\* The names in the headers of the document, in order of appearance.
RECURSIVE HeaderNames(_)
HeaderNames(i) ==
    IF i = 0 THEN <<>>
    ELSE IF HeaderAt(i) THEN Append(HeaderNames(i - 1), document[i + 3])
    ELSE HeaderNames(i - 1)

\* The body under the header that starts at index i: from after the header
\* line to the next header or the end of the document.
BodyAfter(i) ==
    LET next == {j \in (i + 1)..Len(document) : HeaderAt(j)}
    IN  SubSeq(document, i + 5, IF next = {} THEN Len(document) ELSE Min(next) - 1)

IsCanonical(n) ==
    n \in {"Rationale", "ResearchContent", "ResearchPlan", "Innovation",
            "ExpectedOutcomes", "ResearchFoundation"}

\* The canonical names present in the results, in the fixed order, followed
\* by the other names in the order of the results.
ExpectedOrder ==
    SelectSeq(<<"Rationale", "ResearchContent", "ResearchPlan", "Innovation",
                "ExpectedOutcomes", "ResearchFoundation">>,
              LAMBDA n : n \in KeySet(results))
    \o SelectSeq(Keys(results), LAMBDA n : ~IsCanonical(n))

\* C9: the revised proposal has one header per result, the canonical names
\* first in the fixed order and the other names after them in encounter
\* order, each followed by the revised content of that result; a canonical
\* name absent from the results has no header.
C9_RevisedOrder ==
    pc = "assembled"
        => /\ HeaderNames(Len(document)) = ExpectedOrder
           /\ Len(ExpectedOrder) = Len(results)
           /\ \A i \in 1..Len(document) :
                  HeaderAt(i)
                      => BodyAfter(i) = <<"NL">> \o DictGet(results, document[i + 3]).revised_content
                                        \o <<"NL", "NL">>
                                        \o (IF \E j \in (i + 1)..Len(document) : HeaderAt(j)
                                            THEN <<"NL">> ELSE <<>>)

C9_Witness ==
    /\ pc = "assembled"
    /\ Len(results) = 3
    /\ results[1].key = "Other"
    /\ results[2].key = "Innovation"
    /\ results[3].key = "Rationale"
    /\ HeaderNames(Len(document)) = <<"Rationale", "Innovation", "Other">>

----------------------------------------------------------------------------
(* Properties of the rule-based score (specification SpecRule)              *)

\* The content holds no bracketed numeric citation.
NoCitationIn(s) == \A k \in 1..Len(s) : s[k] # "[1]"

\* The content holds no parenthesized enumeration marker.
NoEnumerationIn(s) == \A k \in 1..Len(s) : s[k] # "(1)"

\* C11: a rule-based review under the name 立项依据 of a content without a
\* bracketed numeric citation has the missing-citation issue among its
\* issues and a score of at most 6.
C11_MissingCitation ==
    \A i \in 1..Len(calls) :
        (calls[i].path = "rule"
            /\ calls[i].section_name = "Rationale"
            /\ NoCitationIn(calls[i].content))
        => /\ \E k \in 1..Len(calls[i].result.issues) :
                  calls[i].result.issues[k] = <<"NoCitationMarks">>
           /\ calls[i].result.score <= 6

C11_Witness ==
    /\ Len(calls) >= 1
    /\ calls[1].section_name = "Rationale"
    /\ calls[1].content = <<"F500", "Kw:Rationale", "(1)">>
    /\ calls[1].result.issues = << <<"NoCitationMarks">> >>
    /\ calls[1].result.score = 6

\* The number of keywords of the rubric of the name that occur nowhere in
\* the content.
AbsentKeywords(name, s) ==
    Cardinality({k \in 1..Len(Criteria(name)) :
                    \A j \in 1..Len(s) : Criteria(name)[k] \notin KeywordsIn(s[j])})

\* Twice the value 7 - (1 if short) - 0.5 * absent keywords - (1 if 立项依据
\* without citation).
ExpectedHalves(name, s) ==
    14 - (IF len(s) < 500 THEN 2 ELSE 0)
       - AbsentKeywords(name, s)
       - (IF name = "Rationale" /\ NoCitationIn(s) THEN 2 ELSE 0)

\* The integer truncation (toward zero) of h / 2, clamped to 1..10.
ExpectedScore(h) ==
    LET t == CHOOSE n \in -20..20 :
                 IF h >= 0 THEN 2 * n <= h /\ h < 2 * n + 2
                 ELSE 2 * n >= h /\ h > 2 * n - 2
    IN  IF t < 1 THEN 1 ELSE IF t > 10 THEN 10 ELSE t

\* C12: the rule-based score is the clamp to 1..10 of the truncation of
\* 7 - (1 if shorter than 500) - 0.5 per absent keyword - (1 if 立项依据 has
\* no citation); a content without enumeration marker gets the structural
\* issue, and the marker has no part in the score.
C12_RuleScoreFormula ==
    \A i \in 1..Len(calls) :
        calls[i].path = "rule"
        => /\ calls[i].result.score
                  = ExpectedScore(ExpectedHalves(calls[i].section_name, calls[i].content))
           /\ NoEnumerationIn(calls[i].content)
                  <=> \E k \in 1..Len(calls[i].result.issues) :
                          calls[i].result.issues[k] = <<"NoClearStructure">>

C12_Witness ==
    /\ Len(calls) >= 1
    /\ calls[1].section_name = "Rationale"
    /\ calls[1].content = <<"F500", "Kw:Meaning", "[1]">>
    /\ ExpectedHalves(calls[1].section_name, calls[1].content) = 9
    /\ calls[1].result.score = 4
    /\ calls[1].result.issues[2] = <<"NoClearStructure">>

----------------------------------------------------------------------------
(* Properties of the heading search (specification SpecSeg)                 *)

\* The indices of the tokens of the text that the k-th pattern of the n-th
\* name matches.
OccurrencesOf(n, k) ==
    {i \in 1..Len(text) : PatternMatches(section_patterns[n].patterns[k], text[i])}

\* The priorities of the patterns of the n-th name that match somewhere.
MatchingPriorities(n) ==
    {k \in 1..Len(section_patterns[n].patterns) : OccurrencesOf(n, k) # {}}

\* The recorded positions of the n-th name.
RecordedFor(n) ==
    {i \in 1..Len(section_positions) :
        section_positions[i].name = section_patterns[n].name}

\* C13: for each canonical name at most one heading position is recorded;
\* it is the first occurrence of the highest-priority pattern of the name
\* that matches anywhere, also when a pattern of lower priority occurs
\* earlier in the text; a name none of whose patterns matches has none.
C13_FirstPatternFirstMatch ==
    pc = "segmented"
    => \A n \in 1..Len(section_patterns) :
           /\ Cardinality(RecordedFor(n)) <= 1
           /\ MatchingPriorities(n) = {} <=> RecordedFor(n) = {}
           /\ MatchingPriorities(n) # {}
                  => \A i \in RecordedFor(n) :
                         LET first == Min(OccurrencesOf(n, Min(MatchingPriorities(n))))
                         IN  /\ section_positions[i].pos = Offset(text, first)
                             /\ section_positions[i].title = text[first]

C13_Witness ==
    /\ pc = "segmented"
    /\ Len(text) >= 3
    /\ text[1] = "Background&Meaning"
    /\ text[2] = "1.Rationale"
    /\ text[Len(text)] = "1.Rationale"
    /\ Len(section_positions) = 1
    /\ section_positions[1].pos = 7
    /\ section_positions[1].title = "1.Rationale"

----------------------------------------------------------------------------
(* Properties of the backend calls of a session (specification Spec)        *)

\* No review is in progress: every section taken from the map has its result.
BetweenReviews == pc \in {"loop", "returned"}

\* C14, as stated: in model-backed mode the backend is invoked exactly once
\* per reviewed section, never more, and in rule-based mode never.
C14_AsStated ==
    /\ backend_calls <= Len(calls) + 1
    /\ (BetweenReviews /\ UsesModel) => backend_calls = Len(calls)
    /\ ~UsesModel => backend_calls = 0

\* What the code does: one invocation per section when the generator has a
\* method _generate, none when it is an NSFCGenerator, none in rule-based
\* mode; never a second invocation for a section.
C14_OncePerSectionIfCallable ==
    /\ backend_calls <= Len(calls) + 1
    /\ (BetweenReviews /\ UsesModel /\ generator = "backend")
           => backend_calls = Len(calls)
    /\ (UsesModel /\ generator = "NSFCGenerator") => backend_calls = 0
    /\ ~UsesModel => backend_calls = 0

\* A session with the generator of the application: every section reviewed
\* in model-backed mode, by the rule-based fallback, the backend never invoked.
C14_Witness ==
    /\ pc = "returned"
    /\ generator = "NSFCGenerator"
    /\ use_model
    /\ Len(calls) = 3
    /\ \A i \in 1..Len(calls) : calls[i].path = "fallback"
    /\ backend_calls = 0

----------------------------------------------------------------------------
(* Properties of the choice of path (specification SpecSection)             *)

\* C15: a review takes the model-backed path only with use_model true and a
\* generator present; with use_model false or no generator the result is
\* the rule-based result and no backend call is made.
C15_PathChoice ==
    /\ (pc = "generated" \/ backend_calls > 0)
           => (use_model = TRUE /\ generator # "none")
    /\ \A i \in 1..Len(calls) :
           /\ calls[i].path \in {"model", "fallback"}
                  => (use_model = TRUE /\ generator # "none")
           /\ (use_model = FALSE \/ generator = "none")
                  => /\ calls[i].path = "rule"
                     /\ calls[i].result
                            = _review_rule_based(calls[i].section_name, calls[i].content)
                     /\ backend_calls = 0

C15_Witness ==
    /\ pc = "reviewed"
    /\ use_model = FALSE
    /\ generator = "backend"
    /\ content # <<>>
    /\ calls[1].path = "rule"
    /\ calls[1].result = _review_rule_based(section_name, content)
    /\ backend_calls = 0

----------------------------------------------------------------------------
(* Properties of the order of a session (specification Spec)                *)

\* A review is in progress.
Reviewing == pc \in {"review", "generated", "reviewed"}

\* C16: the sections are reviewed one at a time in the order of the section
\* map: while section i+1 is under review the results of sections 1..i are
\* stored and no other, a review (and its backend call) starts only from
\* the loop head with every earlier result stored, and the results iterate
\* in the order of the section map.
C16_OneAtATimeInOrder ==
    /\ [](/\ Len(results) <= Len(sections)
          /\ \A k \in 1..Len(results) :
                 /\ results[k].key = sections[k].key
                 /\ results[k].value = calls[k].result
                 /\ calls[k].section_name = sections[k].key
          /\ Reviewing
                 => /\ Len(results) < Len(sections)
                    /\ section_name = sections[Len(results) + 1].key
                    /\ content = sections[Len(results) + 1].value
                    /\ Len(calls) = Len(results) + (IF pc = "reviewed" THEN 1 ELSE 0))
    /\ [][/\ backend_calls' # backend_calls
                 => /\ backend_calls' = backend_calls + 1
                    /\ pc = "review"
                    /\ Len(calls) = Len(results)
                    /\ section_name = sections[Len(results) + 1].key
          /\ (pc' = "review" /\ pc # "review")
                 => /\ pc = "loop"
                    /\ Len(calls) = Len(results)
                    /\ section_name' = sections[Len(results) + 1].key
          /\ results' # results
                 => /\ Len(results') = Len(results) + 1
                    /\ SubSeq(results', 1, Len(results)) = results]_vars

C16_Witness ==
    /\ pc = "generated"
    /\ Len(sections) = 3
    /\ Len(results) = 1
    /\ backend_calls = 2
    /\ section_name = sections[2].key
    /\ results[1].key = sections[1].key

----------------------------------------------------------------------------
(* Properties of generate_review_report (specification SpecReport)          *)

\* The first index from i on at which the document holds the token.
NextToken(tok, i) ==
    Min({j \in i..Len(document) : document[j] = tok} \cup {Len(document) + 1})

\* The tokens printed after the label (and its ": ") up to the token stop.
PrintedAfter(label, stop) ==
    LET i == NextToken(label, 1)
    IN  SubSeq(document, i + 4, NextToken(stop, i) - 1)

\* The elements of a finite set of numbers, ascending.
RECURSIVE Ascending(_)
Ascending(S) ==
    IF S = {} THEN <<>> ELSE <<Min(S)>> \o Ascending(S \ {Min(S)})

\* The indices of the subsection headers of the document, ascending.
MemoIndices(n) == Ascending({i \in 1..n : document[i] = "Memo"})

\* The end of the subsection whose header is the k-th of the document.
SubsectionEnd(k) ==
    LET h == MemoIndices(Len(document))
    IN  IF k < Len(h) THEN h[k + 1] - 1 ELSE Len(document)

\* The items of the bullet lines of the document between lo and hi, in order.
Bullets(lo, hi) ==
    LET starts == Ascending({i \in (lo + 1)..(hi - 1) :
                                /\ document[i] = "-"
                                /\ document[i + 1] = "SP"
                                /\ document[i - 1] = "NL"})
    IN  [k \in 1..Len(starts) |->
            SubSeq(document, starts[k] + 2, NextToken("NL", starts[k]) - 1)]

\* C17: the header of the report shows the arithmetic mean of all scores to
\* one decimal place (0.0 for no result) and the number of results; after
\* it comes one subsection per result, in the order of the results, with
\* the score, the issues and the suggestions of that result.
C17_ReportContents ==
    pc = "reported"
    => LET avg == PrintedAfter("AverageScore", "/")
           shown == int(SubSeq(avg, 1, Len(avg) - 2) \o <<avg[Len(avg)]>>)
           n == Len(results)
           heads == MemoIndices(Len(document))
       IN  /\ Len(avg) >= 3
           /\ avg[Len(avg) - 1] = "."
           /\ \A k \in 1..Len(avg) : k # Len(avg) - 1 => avg[k] \in Digits
           /\ n = 0 => shown = 0
           /\ n > 0 => /\ 2 * (n * shown - 10 * total_score(results)) <= n
                       /\ 2 * (10 * total_score(results) - n * shown) <= n
           /\ int(PrintedAfter("SectionCount", "NL")) = n
           /\ Len(heads) = n
           /\ \A k \in 1..n :
                  LET r == results[k].value
                      iss == NextToken("IssuesFound", heads[k])
                      sug == NextToken("SuggestedChanges", heads[k])
                  IN  /\ heads[k] > NextToken("SectionCount", 1)
                      /\ document[heads[k] + 2] = results[k].key
                      /\ iss < sug
                      /\ sug <= SubsectionEnd(k)
                      /\ int(SubSeq(document, NextToken("ScoreLabel", heads[k]) + 3,
                                    NextToken("/", heads[k]) - 1)) = r.score
                      /\ NextToken("/", heads[k]) < iss
                      /\ Bullets(iss, sug) = r.issues
                      /\ Bullets(sug, SubsectionEnd(k)) = r.suggestions

C17_Witness ==
    /\ pc = "reported"
    /\ Len(results) = 3
    /\ results[1].key = "Other"
    /\ results[3].key = "Rationale"
    /\ total_score(results) = 23
    /\ PrintedAfter("AverageScore", "/") = <<"7", ".", "7">>
    /\ Len(results[2].value.issues) = 2

----------------------------------------------------------------------------
(* Properties of the parsed response (specification SpecSection)            *)

\* A score line starts at index i of the response and its number at index j:
\* the label, a colon, any whitespace, a digit.
ScoreLine(r, i, j) ==
    /\ r[i] = "Score"
    /\ i + 2 <= j
    /\ j <= Len(r)
    /\ r[i + 1] = ":"
    /\ \A k \in (i + 2)..(j - 1) : r[k] \in {"SP", "NL"}
    /\ r[j] \in Digits

\* The integer written from index j on: the longest run of digits.
IntegerAt(r, j) ==
    LET e == CHOOSE m \in j..Len(r) :
                 /\ \A k \in j..m : r[k] \in Digits
                 /\ m = Len(r) \/ r[m + 1] \notin Digits
    IN  int(SubSeq(r, j, e))

----------------------------------------------------------------------------
(* Properties of the prompt (specification SpecSection)                     *)

\* C20: on the model branch the prompt holds the first 3000 characters of
\* the content (all of a shorter content), and original_content of the
\* result is the whole content, whatever its length.
C20_PromptTruncatedOriginalKept ==
    /\ pc = "generated"
           => /\ prompt.section_name = section_name
              /\ \E n \in 0..Len(content) : prompt.content = SubSeq(content, 1, n)
              /\ len(prompt.content) = (IF len(content) < 3000 THEN len(content) ELSE 3000)
    /\ \A c \in 1..Len(calls) :
           /\ calls[c].result.original_content = calls[c].content
           /\ calls[c].path \in {"model", "fallback"}
                  => /\ \E n \in 0..Len(calls[c].content) :
                            calls[c].prompt.content = SubSeq(calls[c].content, 1, n)
                     /\ len(calls[c].prompt.content)
                            = (IF len(calls[c].content) < 3000
                               THEN len(calls[c].content) ELSE 3000)

C20_Witness ==
    /\ pc = "reviewed"
    /\ calls[1].path = "model"
    /\ calls[1].content = <<"F3000", "x", "[1]">>
    /\ calls[1].prompt.content = <<"F3000">>
    /\ calls[1].result.original_content = <<"F3000", "x", "[1]">>
    /\ len(calls[1].result.original_content) = 3004

----------------------------------------------------------------------------
(* Properties of the rubric of a non-canonical name (SpecSection)           *)

\* The six keywords of the rubric of 立项依据, in rubric order.
RationaleKeywords ==
    <<"background", "home-and-abroad", "state-of-research", "meaning",
      "necessity", "scientific-problem">>

\* The keywords of RationaleKeywords from position k on that occur nowhere
\* in the content, in rubric order.
RECURSIVE AbsentRationaleFrom(_, _)
AbsentRationaleFrom(k, s) ==
    IF k > Len(RationaleKeywords) THEN <<>>
    ELSE (IF \E j \in 1..Len(s) : RationaleKeywords[k] \in KeywordsIn(s[j])
          THEN <<>> ELSE <<RationaleKeywords[k]>>)
         \o AbsentRationaleFrom(k + 1, s)

\* The issues of a result that report missing keywords.
KeywordIssues(r) ==
    {r.issues[k] : k \in {j \in 1..Len(r.issues) : Head(r.issues[j]) = "MissingKeyContent:"}}

\* C21: under a name that is none of the six canonical names the prompt of
\* the model branch carries the requirements of 立项依据, the rule-based
\* review (direct or as fallback) reports exactly the keywords of 立项依据
\* that the content lacks, and a result is produced for every name.
C21_NonCanonicalUsesRationale ==
    /\ (pc = "generated" /\ section_name \notin CanonicalNames)
           => prompt.requirements = "Rationale"
    /\ \A i \in 1..Len(calls) :
           calls[i].section_name \notin CanonicalNames
           => /\ calls[i].path \in {"model", "fallback"}
                     => calls[i].prompt.requirements = "Rationale"
              /\ calls[i].path \in {"rule", "fallback"}
                     => LET absent == AbsentRationaleFrom(1, calls[i].content)
                        IN  KeywordIssues(calls[i].result)
                                = IF absent = <<>> THEN {}
                                  ELSE {<<"MissingKeyContent:">> \o Join(absent)}
              /\ calls[i].result.section_name = calls[i].section_name
    /\ pc = "reviewed" => Len(calls) >= 1

C21_Witness ==
    /\ pc = "reviewed"
    /\ calls[1].section_name = "FullText"
    /\ calls[1].path = "fallback"
    /\ calls[1].prompt.requirements = "Rationale"
    /\ calls[1].content = <<"F500", "Kw:ResearchContent", "(1)">>
    /\ calls[1].result.issues
           = << <<"MissingKeyContent:">> \o Join(RationaleKeywords) >>

----------------------------------------------------------------------------
(* Properties of WebApp.review_proposal (specification SpecApp)             *)

\* C22: the mapping parse_proposal returns to review_proposal is the result
\* of _extract_sections on the text of the file and has at least one entry,
\* also for the empty text; review_proposal never answers that the document
\* could not be parsed.
C22_NeverEmptyMapping ==
    /\ pc = "loop"
           => /\ sections = _extract_sections(file.full_text)
              /\ Len(sections) >= 1
    /\ reply # Warning("CannotParse")

C22_Witness ==
    /\ pc = "idle"
    /\ file.full_text = <<>>
    /\ file.readable
    /\ sections = <<[key |-> "FullText", value |-> <<>>]>>
    /\ reply.kind = "reviewed"
    /\ reply.names = <<"FullText">>

----------------------------------------------------------------------------
(* Further properties of _extract_sections (specification SpecSeg)          *)

\* The map that consists of the catch-all entry for the whole text.
CatchAll == << [key |-> "FullText", value |-> text] >>

\* C23: the returned map is the single catch-all entry exactly when no
\* matched section survives the length filter; with a survivor there is no
\* catch-all entry; when headings matched and every trimmed content has at
\* most 50 characters, the value of the entry is the whole text, headings
\* included.
C23_CatchAllIffNoSurvivor ==
    pc = "segmented"
        => /\ (sections = CatchAll) <=> (Survivors = {})
           /\ Survivors # {} => "FullText" \notin KeySet(sections)
           /\ (/\ Len(section_positions) >= 1
               /\ \A i \in 1..Len(section_positions) : len(TextUnderHeading(i)) <= 50)
                  => /\ Len(sections) = 1
                     /\ sections[1].key = "FullText"
                     /\ sections[1].value = text
                     /\ \A i \in 1..Len(section_positions) :
                            sections[1].value[HeadingIndex(i)] \in HeadingTokens

C23_Witness ==
    /\ pc = "segmented"
    /\ Len(section_positions) = 2
    /\ len(TextUnderHeading(1)) = 50
    /\ Survivors = {}
    /\ sections = CatchAll
    /\ text[HeadingIndex(1)] \in HeadingTokens

\* The tokens of the text before the first matched heading.
Preamble == 1..(HeadingIndex(1) - 1)

\* C24: when a matched section survives the length filter, no returned span
\* holds a character that precedes the first matched heading, every
\* returned span lies between the first matched heading and the end of the
\* text, and every value consists of tokens at or after that heading.
C24_PreambleDropped ==
    (pc = "segmented" /\ Survivors # {})
        => /\ \A j \in 1..Len(spans) :
                  /\ spans[j].start >= section_positions[1].pos
                  /\ spans[j].end <= len(text)
                  /\ \A k \in Preamble :
                         ~(spans[j].start <= Offset(text, k)
                             /\ Offset(text, k) < spans[j].end)
           /\ Len(spans) = Len(sections)
           /\ \A j \in 1..Len(sections) :
                  \E lo \in HeadingIndex(1)..(Len(text) + 1) :
                      \E hi \in (lo - 1)..Len(text) :
                          sections[j].value = SubSeq(text, lo, hi)

C24_Witness ==
    /\ pc = "segmented"
    /\ Survivors # {}
    /\ text[1] = "F51"
    /\ section_positions[1].pos = 51
    /\ Preamble = {1}
    /\ Len(sections) = 1
    /\ spans[1].start = 51

----------------------------------------------------------------------------
(* Further properties of the rule-based review (specification SpecRule)     *)

\* C25: every rule-based score lies in 2..7 and is the truncated value of
\* 7 minus the deductions itself: the total deduction is at most 5, so the
\* clamp to 1..10 changes nothing.
C25_RuleScoreBetween2And7 ==
    \A i \in 1..Len(calls) :
        calls[i].path = "rule"
        => LET h == ExpectedHalves(calls[i].section_name, calls[i].content)
           IN  /\ calls[i].result.score >= 2
               /\ calls[i].result.score <= 7
               /\ 14 - h <= 10
               /\ 2 * calls[i].result.score <= h
               /\ h <= 2 * calls[i].result.score + 1

C25_Witness ==
    /\ Len(calls) >= 1
    /\ calls[1].path = "rule"
    /\ calls[1].section_name = "Rationale"
    /\ calls[1].content = <<"(1)">>
    /\ ExpectedHalves(calls[1].section_name, calls[1].content) = 4
    /\ calls[1].result.score = 2

\* The smallest integer that is at least k / 2.
CeilHalf(k) == CHOOSE n \in 0..k : 2 * n >= k /\ 2 * n <= k + 1

\* The conditions of the score other than the keywords: whether the content
\* is short, and whether the citation deduction applies.
OtherConditions(name, s) ==
    <<len(s) < 500, name = "Rationale" /\ NoCitationIn(s)>>

\* The tokens of the contents that hold keywords.
KeywordTokens == {"Kw:Meaning", "Kw:Rationale", "Kw:ResearchContent"}

\* C26: k absent keywords lower the rule-based score by ceil(k/2) below the
\* value the other conditions give; a content that differs by one token,
\* with the other conditions the same, scores the same when it lacks 2j-1
\* keywords against 2j, and never higher when it lacks more.
C26_KeywordsCostCeilHalf ==
    \A i \in 1..Len(calls) :
        calls[i].path = "rule"
        => LET name == calls[i].section_name
               c == calls[i].content
               k == AbsentKeywords(name, c)
               base == 7 - (IF len(c) < 500 THEN 1 ELSE 0)
                         - (IF name = "Rationale" /\ NoCitationIn(c) THEN 1 ELSE 0)
           IN  /\ calls[i].result.score = base - CeilHalf(k)
               /\ \A t \in (IF Len(calls) = 1 THEN KeywordTokens ELSE {}) :
                      LET c2 == Append(c, t)
                          k2 == AbsentKeywords(name, c2)
                          score2 == RuleScore(name, c2)
                      IN  OtherConditions(name, c2) = OtherConditions(name, c)
                          => /\ k2 <= k => score2 >= calls[i].result.score
                             /\ (k2 % 2 = 1 /\ k = k2 + 1)
                                    => score2 = calls[i].result.score

C26_Witness ==
    /\ Len(calls) >= 1
    /\ calls[1].path = "rule"
    /\ calls[1].section_name = "Rationale"
    /\ calls[1].content = <<"F500", "[1]", "(1)">>
    /\ AbsentKeywords("Rationale", calls[1].content) = 6
    /\ AbsentKeywords("Rationale", Append(calls[1].content, "Kw:Meaning")) = 5
    /\ calls[1].result.score = 4
    /\ RuleScore("Rationale", Append(calls[1].content, "Kw:Meaning")) = 4

\* C27: a rule-based review under a name other than 立项依据 has neither the
\* missing-citation issue nor its suggestion; under a name that is none of
\* the six canonical names the keywords of 立项依据 are checked and the score
\* is 7 - (1 if short) - ceil(absent keywords / 2), with no deduction for
\* a missing citation, whatever the content.
C27_CitationOnlyForRationale ==
    \A i \in 1..Len(calls) :
        (calls[i].path = "rule" /\ calls[i].section_name # "Rationale")
        => LET r == calls[i].result
               c == calls[i].content
               absent == AbsentRationaleFrom(1, c)
           IN  /\ \A k \in 1..Len(r.issues) : r.issues[k] # <<"NoCitationMarks">>
               /\ \A k \in 1..Len(r.suggestions) : r.suggestions[k] # <<"AddCitations">>
               /\ calls[i].section_name \notin CanonicalNames
                      => /\ r.score = 7 - (IF len(c) < 500 THEN 1 ELSE 0)
                                        - CeilHalf(Len(absent))
                         /\ KeywordIssues(r)
                                = IF absent = <<>> THEN {}
                                  ELSE {<<"MissingKeyContent:">> \o Join(absent)}

C27_Witness ==
    /\ Len(calls) >= 1
    /\ calls[1].path = "rule"
    /\ calls[1].section_name = "FullText"
    /\ calls[1].content = <<"F500", "Kw:Meaning", "(1)">>
    /\ NoCitationIn(calls[1].content)
    /\ calls[1].result.score = 4
    /\ Len(calls[1].result.issues) = 1
    /\ Head(calls[1].result.issues[1]) = "MissingKeyContent:"

----------------------------------------------------------------------------
(* Properties of the cached review results (specification SpecApp)          *)

\* The last review_proposal failed in parse_proposal, and the handler has
\* returned.
ParseFailureReturned == pc = "idle" /\ error \in {"ValueError", "DecoderError"}

\* C28: no step of review_proposal before parse_proposal has returned, and
\* no step of its failure branch, changes review_results; review_results
\* becomes empty only in the step after a successful parse, and otherwise
\* changes only by the result of a reviewed section; between two requests
\* get_section_review and the exports answer from review_results as it is,
\* also after a failed parse.
C28_FailedParseKeepsResults ==
    /\ [](pc = "idle"
            => /\ reply.kind = "section"
                      => \E name \in KeySet(review_results) :
                             LET r == DictGet(review_results, name)
                             IN  /\ reply.revised_content = r.revised_content
                                 /\ reply.score_text
                                        = <<"Score", ":", "SP">> \o str(r.score)
                                              \o <<"/", "1", "0">>
               /\ reply.kind = "file"
                      => /\ review_results # <<>>
                         /\ reply.suffix = ".md"
                                => reply.content \in
                                       {generate_review_report(review_results),
                                        generate_revised_proposal(review_results)}
               /\ reply.kind = "failed" => ParseFailureReturned)
    /\ [][/\ pc \in {"idle", "start", "raised"} => review_results' = review_results
          /\ review_results' # review_results
                 => \/ pc = "loop" /\ pc' = "app_loop" /\ review_results' = <<>>
                    \/ /\ pc = "reviewed"
                       /\ Len(review_results') = Len(review_results) + 1
                       /\ SubSeq(review_results', 1, Len(review_results)) = review_results]_vars

C28_Witness ==
    /\ ParseFailureReturned
    /\ file.ext = ".txt"
    /\ reply.kind = "section"
    /\ Keys(review_results) = <<"Rationale", "ResearchContent", "ResearchPlan">>
    /\ reply.revised_content = DictGet(review_results, "ResearchContent").revised_content

\* Whether a suggestion is the one the code appends together with an issue.
Answers(suggestion, issue) ==
    \/ issue = <<"TooShort">> /\ suggestion = <<"ExpandContent">>
    \/ /\ Head(issue) = "MissingKeyContent:"
       /\ Head(suggestion) = "PleaseAdd:"
       /\ Tail(suggestion) = Tail(issue)
    \/ issue = <<"NoClearStructure">> /\ suggestion = <<"UseNumberedLevels">>
    \/ issue = <<"NoCitationMarks">> /\ suggestion = <<"AddCitations">>
    \/ issue = <<"ContentMeetsRequirements">> /\ suggestion = <<"DetailsCanBeRefined">>

\* C29: in a rule-based result the issues and the suggestions have the same
\* length, from 1 to 4, the i-th suggestion is the one appended with the
\* i-th issue, and the missing keywords make one issue (and one suggestion)
\* when a keyword is absent, none otherwise.
C29_IssuesAndSuggestionsPaired ==
    \A i \in 1..Len(calls) :
        calls[i].path = "rule"
        => LET r == calls[i].result
               keyword == {k \in 1..Len(r.issues) : Head(r.issues[k]) = "MissingKeyContent:"}
           IN  /\ Len(r.issues) = Len(r.suggestions)
               /\ Len(r.issues) >= 1
               /\ Len(r.issues) <= 4
               /\ \A k \in 1..Len(r.issues) : Answers(r.suggestions[k], r.issues[k])
               /\ Cardinality(keyword)
                      = IF AbsentKeywords(calls[i].section_name, calls[i].content) > 0
                        THEN 1 ELSE 0

C29_Witness ==
    /\ Len(calls) >= 1
    /\ calls[1].path = "rule"
    /\ calls[1].section_name = "Rationale"
    /\ calls[1].content = <<"Kw:Meaning">>
    /\ AbsentKeywords("Rationale", calls[1].content) = 5
    /\ Len(calls[1].result.issues) = 4
    /\ Len(calls[1].result.suggestions) = 4
    /\ Len(calls[1].result.issues[2]) = 10

----------------------------------------------------------------------------
(* Properties of DataProcessor (specification SpecData)                     *)

\* Every section process_markdown_file has returned, in order.
RECURSIVE AllReturned(_)
AllReturned(n) ==
    IF n = 0 THEN <<>> ELSE AllReturned(n - 1) \o returned[n]

\* C30: no two sections returned by the calls of process_markdown_file on
\* one DataProcessor have the same content (nor the same digest); the
\* recorded hashes are exactly the digests of the returned sections, each
\* of which has a section type and at least min_content_length characters.
C30_NoDuplicateContent ==
    LET all == AllReturned(Len(returned))
    IN  /\ \A i \in 1..Len(all) : \A j \in 1..Len(all) :
               i # j => /\ all[i].content # all[j].content
                        /\ md5(all[i].content) # md5(all[j].content)
        /\ processed_hashes = {md5(all[i].content) : i \in 1..Len(all)}
        /\ \A i \in 1..Len(all) :
               /\ all[i].section_type \in CanonicalNames
               /\ len(all[i].content) >= 100

C30_Witness ==
    /\ Len(returned) = 2
    /\ Len(returned[1]) = 1
    /\ returned[1][1].content = <<"M1">>
    /\ returned[1][1].section_type = "Rationale"
    /\ Len(returned[2]) = 1
    /\ returned[2][1].content = <<"M2", "NL", "F49">>
    /\ returned[2][1].source_file = 2
    /\ processed_hashes = {<<"M1">>, <<"M1", "NL", "F49">>}

=============================================================================
